---- MODULE Spec2Model ----
(***************************************************************************)
(* A model of faviyolo, a browser favicon generator:                       *)
(*   - the font selection / font loading state machine of the Home page    *)
(*     (src/src/app/page.tsx) on top of the coalescing font loader         *)
(*     (src/src/lib/font-loader.ts),                                       *)
(*   - the stylesheet link installer (ensureFontStylesheet),               *)
(*   - the ICO container builder (createIcoFromPng),                       *)
(*   - the colour conversions (hexToHsva, hsvaToRgba, hsvaToHex).          *)
(*                                                                         *)
(* The browser is single threaded: one task (a user event, a platform      *)
(* callback) runs to completion and the promise continuations it releases  *)
(* (microtasks) run before the next task.  One action of the model is one  *)
(* task together with its microtasks and the React commit and effects it   *)
(* causes.                                                                 *)
(***************************************************************************)
EXTENDS Integers, Sequences, FiniteSets, TLC

VARIABLES
    \* ---- Home page state (page.tsx 256-286) and font loader (font-loader.ts 1-2)
    selectedFontId,     \* useState selectedFontId: an index of FONT_OPTIONS
    fontConfig,         \* useState fontConfig: the descriptor of a catalogue entry
    fontStatus,         \* useState fontStatus
    previewFontFamily,  \* useState previewFontFamily: "sans-serif" or a font's family
    effects,            \* the runs of the fontConfig load effect, oldest first
    loads,              \* the loadFontOnce operations started so far, oldest first
    loadCache,          \* loadCache: key -> "none" | "resolved" | index in loads
    linkState,          \* the stylesheet link of each cssHref in document.head
    fontsApi,           \* whether document.fonts exists in this browser
    lastSettled,        \* history: the loadFontOnce operation that settled last
    \* ---- stylesheet installer over arbitrary URLs (font-loader.ts 4-40)
    head,               \* the link elements of document.head
    stylesheetCache,    \* stylesheetCache: cssHref -> link element
    requested,          \* history: the cssHrefs ensureFontStylesheet was called with
    \* ---- ICO builder (page.tsx 227-244)
    png,                \* the bytes of the PNG blob
    ico,                \* the bytes of the blob createIcoFromPng returned for png
    pngLength,          \* a PNG byte length
    icoHeader,          \* the 22 header bytes written for pngLength
    \* ---- colour model (font-loader.ts 141-237)
    colorPc,            \* "idle", or the conversion to apply / applied to the input
    hexIn,              \* the text handed to hexToHsva
    hsva,               \* an HSVA colour
    rgba,               \* hsvaToRgba(hsva)
    hexOut,             \* hsvaToHex(hsva)
    \* ---- Home: appearance state and the canvas (page.tsx 277-280, 412-453)
    charInput,          \* useState charInput: a sequence of code points
    bgColor,            \* useState bgColor
    fgColor,            \* useState fgColor
    cornerRadius,       \* useState cornerRadius
    canvas,             \* what the draw effect last painted
    \* ---- randomChar (page.tsx 173-200)
    validator,          \* the validator passed to randomChar
    attempt,            \* the loop counter of randomChar
    randomCharPc,       \* "idle", "draw", "scan" or "done"
    randomCharResult,   \* the code point randomChar returned
    \* ---- PNG / ICO export (page.tsx 215-253, 455-470)
    exports,            \* the export handlers started so far, oldest first
    downloads,          \* the blobs handed to downloadBlob, oldest first
    \* ---- the Randomize button (page.tsx 325-340, 472-518)
    randomizeTimeoutRef,  \* randomizeTimeoutRef.current (0 = null)
    randomizeIntervalRef, \* randomizeIntervalRef.current (0 = null)
    timeouts,           \* the timeouts the browser has scheduled
    intervals,          \* the intervals the browser has scheduled
    nextTimerId,        \* the id the next setTimeout / setInterval returns
    lastPointer,        \* history: the last pointer event on the button
    mounted,            \* whether Home is mounted
    \* ---- font URL resolution (src/unnamed/part_000 19-74, 141, 250-256)
    fontInput,          \* useState fontInput
    derivedConfig,      \* useMemo deriveFontConfig(fontInput)
    urlFontConfig,      \* useState fontConfig of that page
    urlFontStatus,      \* useState fontStatus of that page
    urlPc,              \* "idle", or the step of the font URL form
    \* ---- normalizeHsva (font-loader.ts 261-271)
    normValue,          \* the partial update handed to normalizeHsva
    normFallback,       \* the fallback handed to normalizeHsva
    normResult,         \* the colour it returned, undefined before the call
    \* ---- Home: the state updates of randomizeOnce (page.tsx 472-501)
    handlerPc,          \* the setState calls the running randomizeOnce has made, 0 = none runs
    updateQueue,        \* the state updates queued and not yet rendered
    renderedStamp,      \* history: per state value, the randomize step it was rendered from
    randomizeCount,     \* history: the randomize steps started
    \* ---- the Randomize button in time (page.tsx 503-518)
    sincePress,         \* the milliseconds since the last pointer down
    remaining,          \* per scheduled timer, the milliseconds until it fires
    pressed,            \* the pointer went down on the button and is not yet up
    clickPending,       \* the browser is about to dispatch the click of a pointer up
    release,            \* history: "none", or "early" / "late": the press ended before / after 350 ms
    timerFires,         \* history: the timer-driven randomizeOnce calls since the last pointer down
    lastFireAfter,      \* history: sincePress at the last of them
    clickFires,         \* history: the randomizeOnce calls from pointer clicks since then
    lastEvent,          \* history: the handler or callback that ran last
    \* ---- loadFontFace / clearFontLoadCache as a library (font-loader.ts 109-132)
    clears,             \* history: whether clearFontLoadCache has been called
    cleared,            \* history: the keys not requested since the last clearFontLoadCache
    resolvedKeys,       \* history: the keys whose load resolved, none cleared since
    lastCall,           \* history: the last loadFontFace call and what it returned
    \* ---- the microtask queue of the font loader (font-loader.ts 116-125, page.tsx 371-389)
    reactions,          \* the settled operations whose promise reactions have not run yet
    \* ---- Home and the background ColorPicker (color-picker.tsx 60-75, page.tsx 788-794)
    syncPc,             \* "idle", or the next step of the exchange between the two
    syncRounds          \* history: the remounts of the picker since the last edit

pageVars == <<selectedFontId, fontConfig, fontStatus, previewFontFamily, effects,
              loads, loadCache, linkState, fontsApi, lastSettled>>
sheetVars == <<head, stylesheetCache, requested>>
icoVars == <<png, ico, pngLength, icoHeader>>
colorVars == <<colorPc, hexIn, hsva, rgba, hexOut>>
drawVars == <<charInput, bgColor, fgColor, cornerRadius, canvas>>
randVars == <<validator, attempt, randomCharPc, randomCharResult>>
exportVars == <<exports, downloads>>
timerVars == <<randomizeTimeoutRef, randomizeIntervalRef, timeouts, intervals,
               nextTimerId, lastPointer, mounted>>
urlVars == <<fontInput, derivedConfig, urlFontConfig, urlFontStatus, urlPc>>
normVars == <<normValue, normFallback, normResult>>
batchVars == <<handlerPc, updateQueue, renderedStamp, randomizeCount>>
clockVars == <<sincePress, remaining, pressed, clickPending, release, timerFires,
               lastFireAfter, clickFires, lastEvent>>
loaderVars == <<clears, cleared, resolvedKeys, lastCall>>
syncVars == <<syncPc, syncRounds>>
uiVars == <<normVars, batchVars, clockVars, loaderVars, reactions, syncVars>>
vars == <<pageVars, sheetVars, icoVars, colorVars, drawVars, randVars, exportVars,
          timerVars, urlVars, uiVars>>

(***************************************************************************)
(* Bounds                                                                  *)
(***************************************************************************)
\* The catalogue FONT_OPTIONS has 56 entries with pairwise distinct id, cssHref,
\* fontFamily and stylesheet identifier; the model keeps the first NumFonts.
NumFonts == 2
\* The number of runs of the load effect (two of them happen at mount).
MaxEffects == 4

Fonts == 1..NumFonts

(***************************************************************************)
(* Numbers and strings                                                     *)
(***************************************************************************)
\* A JavaScript number is modelled by the exact fraction n/d in lowest terms
\* with d > 0; d = 0 stands for NaN.  (IEEE rounding is not modelled.)
RECURSIVE Gcd(_, _)
Gcd(a, b) == IF b = 0 THEN a ELSE Gcd(b, a % b)

Abs(k) == IF k < 0 THEN -k ELSE k

NaN == [n |-> 0, d |-> 0]
\* undefined, where a number may be absent.
Undefined == [undefined |-> TRUE]
IsNaN(x) == x.d = 0

Rat(n, d) ==
    IF d = 0 THEN NaN
    ELSE LET g == Gcd(Abs(n), Abs(d))
             sign == IF d < 0 THEN -1 ELSE 1
         IN [n |-> sign * (n \div g), d |-> sign * (d \div g)]

Num(k) == [n |-> k, d |-> 1]

Add(x, y) == Rat(x.n * y.d + y.n * x.d, x.d * y.d)
Sub(x, y) == Rat(x.n * y.d - y.n * x.d, x.d * y.d)
Mul(x, y) == Rat(x.n * y.n, x.d * y.d)
\* x / y; the colour model divides by 255, by 60, and by numbers it has
\* compared with 0 first, so y is a non-zero number or NaN.
Div(x, y) == IF IsNaN(x) \/ IsNaN(y) THEN NaN ELSE Rat(x.n * y.d, x.d * y.n)

\* <, >=, === and !== : every comparison with NaN is false, except !==.
Lt(x, y) == ~IsNaN(x) /\ ~IsNaN(y) /\ x.n * y.d < y.n * x.d
Ge(x, y) == ~IsNaN(x) /\ ~IsNaN(y) /\ x.n * y.d >= y.n * x.d
StrictEq(x, y) == ~IsNaN(x) /\ ~IsNaN(y) /\ x = y
StrictNe(x, y) == ~StrictEq(x, y)

MathMax(x, y) == IF IsNaN(x) \/ IsNaN(y) THEN NaN ELSE IF Lt(x, y) THEN y ELSE x
MathMin(x, y) == IF IsNaN(x) \/ IsNaN(y) THEN NaN ELSE IF Lt(y, x) THEN y ELSE x
MathAbs(x) == [n |-> Abs(x.n), d |-> x.d]
\* Math.round: the integer nearest to x, halves rounded up.
MathRound(x) == IF IsNaN(x) THEN NaN ELSE Num((2 * x.n + x.d) \div (2 * x.d))

\* x % k for an integer k > 0: the remainder has the sign of x.
TruncDiv(n, m) == IF n >= 0 THEN n \div m ELSE -((-n) \div m)
Fmod(x, k) == IF IsNaN(x) THEN NaN ELSE Sub(x, Num(k * TruncDiv(x.n, x.d * k)))

\* clamp(value, min, max) = Math.min(Math.max(value, min), max).
Clamp(value, min, max) == MathMin(MathMax(value, min), max)

(***************************************************************************)
(* Strings of the colour model: sequences of one-character strings         *)
(***************************************************************************)
LowerDigits == <<"0", "1", "2", "3", "4", "5", "6", "7", "8", "9",
                 "a", "b", "c", "d", "e", "f">>
UpperDigits == <<"0", "1", "2", "3", "4", "5", "6", "7", "8", "9",
                 "A", "B", "C", "D", "E", "F">>

IsHexDigit(c) == \E i \in 1..16 : LowerDigits[i] = c \/ UpperDigits[i] = c
DigitValue(c) == (CHOOSE i \in 1..16 : LowerDigits[i] = c \/ UpperDigits[i] = c) - 1

\* The whitespace of the model's alphabet is the space.
IsWhitespace(c) == c = " "

RECURSIVE TrimStart(_)
TrimStart(str) ==
    IF Len(str) > 0 /\ IsWhitespace(str[1]) THEN TrimStart(Tail(str)) ELSE str

RECURSIVE TrimEnd(_)
TrimEnd(str) ==
    IF Len(str) > 0 /\ IsWhitespace(str[Len(str)])
    THEN TrimEnd(SubSeq(str, 1, Len(str) - 1)) ELSE str

\* String.prototype.trim.
Trim(str) == TrimEnd(TrimStart(str))

\* The value of the longest prefix of hexadecimal digits, -1 if it is empty.
RECURSIVE DigitsPrefixValue(_, _)
DigitsPrefixValue(str, acc) ==
    IF Len(str) = 0 \/ ~IsHexDigit(str[1]) THEN acc
    ELSE DigitsPrefixValue(Tail(str), (IF acc < 0 THEN 0 ELSE acc * 16) + DigitValue(str[1]))

\* parseInt(str, 16) on the model's alphabet (no sign, no "0x"): leading
\* whitespace is skipped, the digits up to the first other character are read,
\* and the result is NaN when there is no digit.
ParseInt16(str) ==
    LET value == DigitsPrefixValue(TrimStart(str), -1)
    IN IF value < 0 THEN NaN ELSE Num(value)

\* value.toString(16) for an integer value >= 0.
RECURSIVE ToString16(_)
ToString16(k) ==
    IF k < 16 THEN <<LowerDigits[k + 1]>>
    ELSE ToString16(k \div 16) \o <<LowerDigits[(k % 16) + 1]>>

\* toHex of hsvaToHex: value.toString(16).padStart(2, "0"); NaN prints as "NaN".
ToHex(value) ==
    IF IsNaN(value) THEN <<"N", "a", "N">>
    ELSE LET digits == ToString16(value.n)
         IN IF Len(digits) < 2 THEN <<"0">> \o digits ELSE digits

(***************************************************************************)
(* Font URL resolution: deriveFontConfig (the page variant that takes a    *)
(* font URL, src/unnamed/part_000)                                         *)
(***************************************************************************)
\* A text is a sequence of one-character strings.  A host name is a sequence of
\* labels and dots, a path a sequence of "/" tokens, the segment "specimen" and
\* characters.  The characters "NUL", "STX" and "\"" stand for the characters
\* U+0000, U+0002 and U+0022 that percent-decoding can produce.
\* The longest family text / specimen segment of an input URL.
MaxFamilyLen == 3

\* String.prototype.includes / indexOf on token sequences.
IndexOf(hay, needle) ==
    LET hits == {i \in 0..(Len(hay) - Len(needle)) :
                    SubSeq(hay, i + 1, i + Len(needle)) = needle}
    IN IF hits = {} THEN -1 ELSE CHOOSE i \in hits : \A j \in hits : i <= j

Includes(hay, needle) == IndexOf(hay, needle) # -1

ReplaceAll(text, from, to) ==
    [i \in DOMAIN text |-> IF text[i] = from THEN to ELSE text[i]]

\* split(sep)[0]: the text before the first separator.
RECURSIVE BeforeFirst(_, _)
BeforeFirst(text, sep) ==
    IF text = <<>> \/ Head(text) = sep THEN <<>>
    ELSE <<Head(text)>> \o BeforeFirst(Tail(text), sep)

\* replace(/\s+/g, "+"): every run of spaces becomes one "+".
RECURSIVE CollapseSpaces(_)
CollapseSpaces(text) ==
    IF text = <<>> THEN <<>>
    ELSE IF Head(text) = " "
         THEN <<"+">> \o CollapseSpaces(TrimStart(text))
         ELSE <<Head(text)>> \o CollapseSpaces(Tail(text))

\* The character of a percent-encoded byte below 0x80 written with the digits
\* 0 and 2.
DecodedChar(hi, lo) ==
    IF hi = "2" /\ lo = "0" THEN " "
    ELSE IF hi = "2" /\ lo = "2" THEN "\""
    ELSE IF hi = "0" /\ lo = "0" THEN "NUL"
    ELSE "STX"

IsEscapeDigit(c) == c \in {"0", "2"}

\* decodeURIComponent: "%" must be followed by two hexadecimal digits, otherwise
\* a URIError is thrown (ok = FALSE).
RECURSIVE DecodeURIComponent(_)
DecodeURIComponent(text) ==
    IF text = <<>> THEN [ok |-> TRUE, text |-> <<>>]
    ELSE IF Head(text) # "%"
         THEN LET rest == DecodeURIComponent(Tail(text))
              IN [ok |-> rest.ok, text |-> <<Head(text)>> \o rest.text]
         ELSE IF Len(text) < 3 \/ ~IsEscapeDigit(text[2]) \/ ~IsEscapeDigit(text[3])
              THEN [ok |-> FALSE, text |-> <<>>]
              ELSE LET rest == DecodeURIComponent(SubSeq(text, 4, Len(text)))
                   IN [ok |-> rest.ok,
                       text |-> <<DecodedChar(text[2], text[3])>> \o rest.text]

\* normalizeFontName: "+" becomes a space, then the text is percent-decoded.
NormalizeFontName(rawName) == DecodeURIComponent(ReplaceAll(rawName, "+", " "))

GoogleApisHost == <<"fonts", ".", "googleapis", ".", "com">>
GoogleFontsHost == <<"fonts", ".", "google", ".", "com">>
GOOGLE_SPECIMEN_PREFIX == <<"/", "specimen", "/">>

NoHref == [hostname |-> <<>>, pathname |-> <<>>, family |-> <<>>]
NullConfig == [isNull |-> TRUE, cssHref |-> NoHref, fontFamily |-> <<>>]
FontConfig(href, family) == [isNull |-> FALSE, cssHref |-> href, fontFamily |-> family]

\* The results of a call: a returned value or a thrown exception.
Return(value) == [threw |-> FALSE, value |-> value]
Throw == [threw |-> TRUE, value |-> NullConfig]

\* buildCssUrlFromSpecimen: the path segment after "/specimen/" names the family;
\* the cssHref is synthesised for the weights 400, 500 and 700.
BuildCssUrlFromSpecimen(pathname) ==
    LET specimenIndex == IndexOf(pathname, GOOGLE_SPECIMEN_PREFIX)
        after == SubSeq(pathname, specimenIndex + Len(GOOGLE_SPECIMEN_PREFIX) + 1,
                        Len(pathname))
        raw == BeforeFirst(after, "/")
        familyName == NormalizeFontName(raw)
        familyParam == CollapseSpaces(Trim(familyName.text))
    IN IF specimenIndex = -1 THEN Return(NullConfig)
       ELSE IF raw = <<>> THEN Return(NullConfig)
       ELSE IF ~familyName.ok THEN Throw
       ELSE Return(FontConfig(
                [hostname |-> GoogleApisHost, pathname |-> <<"/", "css2">>,
                 family |-> familyParam \o <<":", "wght@400;500;700">>],
                familyName.text))

\* buildConfigFromGoogleCss: the family parameter up to its first ":" names the
\* family; the cssHref is the URL itself.
BuildConfigFromGoogleCss(url) ==
    LET rawFamily == BeforeFirst(url.family.text, ":")
        fontFamily == NormalizeFontName(rawFamily)
    IN IF ~url.family.present \/ url.family.text = <<>> THEN Return(NullConfig)
       ELSE IF ~fontFamily.ok THEN Throw
       ELSE Return(FontConfig(
                [hostname |-> url.hostname, pathname |-> url.pathname,
                 family |-> url.family.text],
                fontFamily.text))

\* new URL(trimmed): a text that is not a URL throws.
ParseUrl(input) == IF input.kind = "url" THEN Return(input) ELSE Throw

\* The body of the try block of deriveFontConfig.
DeriveFromUrl(input) ==
    LET parsed == ParseUrl(input)
    IN IF parsed.threw THEN Throw
       ELSE IF Includes(input.hostname, GoogleApisHost)
            THEN BuildConfigFromGoogleCss(input)
       ELSE IF Includes(input.hostname, GoogleFontsHost)
            THEN BuildCssUrlFromSpecimen(input.pathname)
       ELSE Return(NullConfig)

\* deriveFontConfig: a blank input gives null; whatever the try block throws is
\* caught and gives null.
DeriveFontConfig(input) ==
    IF input.kind = "text" /\ Trim(input.text) = <<>> THEN Return(NullConfig)
    ELSE LET r == DeriveFromUrl(input)
         IN IF r.threw THEN Return(NullConfig) ELSE r

NoFamily == [present |-> FALSE, text |-> <<>>]
Family(text) == [present |-> TRUE, text |-> text]
TextInput(text) ==
    [kind |-> "text", text |-> text, hostname |-> <<>>, pathname |-> <<>>,
     family |-> NoFamily]
UrlInput(hostname, pathname, family) ==
    [kind |-> "url", text |-> <<>>, hostname |-> hostname, pathname |-> pathname,
     family |-> family]

\* DEFAULT_FONT_URL, "https://fonts.google.com/specimen/Orbitron", and the
\* descriptor the module derives from it at load time.
DEFAULT_FONT_URL == UrlInput(GoogleFontsHost, <<"/", "specimen", "/", "Orbitron">>, NoFamily)
DEFAULT_FONT_CONFIG == DeriveFontConfig(DEFAULT_FONT_URL).value

(***************************************************************************)
(* Random character generator: RANDOM_CHAR_CATEGORIES, randomChar          *)
(***************************************************************************)
\* Characters are code points.  Every configured range is kept with its first
\* MaxRangeLen code points (only latin-extended, 431 code points, and kanji,
\* 20992 code points, are longer than 96).
MaxRangeLen == 96

MAX_RANDOM_CHAR_ATTEMPTS == 50

Range(start, end) == [start |-> start, end |-> end]

\* page.tsx 40-98, the range bounds in decimal.
RANDOM_CHAR_CATEGORIES ==
    << [name |-> "digits", weight |-> 4, ranges |-> <<Range(48, 57)>>],
       [name |-> "latin-upper", weight |-> 4, ranges |-> <<Range(65, 90)>>],
       [name |-> "latin-lower", weight |-> 4, ranges |-> <<Range(97, 122)>>],
       [name |-> "ascii-punctuation", weight |-> 3,
        ranges |-> <<Range(33, 47), Range(58, 64), Range(91, 96), Range(123, 126)>>],
       [name |-> "latin-extended", weight |-> 2, ranges |-> <<Range(161, 591)>>],
       [name |-> "cjk-punctuation", weight |-> 2, ranges |-> <<Range(12289, 12351)>>],
       [name |-> "hiragana", weight |-> 3, ranges |-> <<Range(12353, 12447)>>],
       [name |-> "katakana", weight |-> 3, ranges |-> <<Range(12448, 12543)>>],
       [name |-> "kanji", weight |-> 2, ranges |-> <<Range(19968, 40959)>>],
       [name |-> "full-width", weight |-> 2,
        ranges |-> <<Range(65281, 65376), Range(65504, 65518)>>] >>

\* RANDOM_CHAR_EXCLUDED_CODEPOINTS: U+3097.
RANDOM_CHAR_EXCLUDED_CODEPOINTS == {12439}

\* The code points String.prototype.trim removes (white space and line
\* terminators), so that char.trim() is empty.
TrimmedCodePoints ==
    {9, 10, 11, 12, 13, 32, 160, 5760, 8232, 8233, 8239, 8287, 12288, 65279}
        \cup (8192..8202)

\* A filter that skips no code point.
SkipNothing(codePoint) == FALSE

\* shouldSkipCodePoint: control characters, the soft hyphen U+00AD, white space
\* and the excluded code points.
ShouldSkipCodePoint(codePoint) ==
    \/ codePoint < 32
    \/ codePoint >= 127 /\ codePoint <= 159
    \/ codePoint = 173
    \/ codePoint \in TrimmedCodePoints
    \/ codePoint \in RANDOM_CHAR_EXCLUDED_CODEPOINTS

KeepCodePoint(codePoint) == ~ShouldSkipCodePoint(codePoint)

\* The code points of one range the loop of createRandomCharPool visits.
RangeCodePoints(range) ==
    LET last == IF range.end - range.start + 1 > MaxRangeLen
                THEN range.start + MaxRangeLen - 1 ELSE range.end
    IN [i \in 1..(last - range.start + 1) |-> range.start + i - 1]

\* createRandomCharPool: the code points of the ranges, in order, without the
\* skipped ones.
RECURSIVE CreateRandomCharPool(_)
CreateRandomCharPool(ranges) ==
    IF ranges = <<>> THEN <<>>
    ELSE SelectSeq(RangeCodePoints(Head(ranges)), KeepCodePoint)
             \o CreateRandomCharPool(Tail(ranges))

HasPool(category) == Len(category.pool) > 0

\* RANDOM_CHAR_CATEGORY_POOLS: the categories with their pools, without the
\* categories whose pool is empty.
RANDOM_CHAR_CATEGORY_POOLS ==
    SelectSeq([i \in DOMAIN RANDOM_CHAR_CATEGORIES |->
                  [name |-> RANDOM_CHAR_CATEGORIES[i].name,
                   weight |-> RANDOM_CHAR_CATEGORIES[i].weight,
                   pool |-> CreateRandomCharPool(RANDOM_CHAR_CATEGORIES[i].ranges)]],
              HasPool)

RECURSIVE FlatMapPool(_)
FlatMapPool(categories) ==
    IF categories = <<>> THEN <<>>
    ELSE Head(categories).pool \o FlatMapPool(Tail(categories))

RANDOM_CHAR_POOL == FlatMapPool(RANDOM_CHAR_CATEGORY_POOLS)

RECURSIVE SumWeights(_)
SumWeights(categories) ==
    IF categories = <<>> THEN 0
    ELSE Head(categories).weight + SumWeights(Tail(categories))

RANDOM_CHAR_TOTAL_WEIGHT == SumWeights(RANDOM_CHAR_CATEGORY_POOLS)

\* pickRandomCategory for target = Math.random() * RANDOM_CHAR_TOTAL_WEIGHT: the
\* weights are integers, so the category depends on the integer part of target
\* only.  The result is an index of RANDOM_CHAR_CATEGORY_POOLS.
RECURSIVE PickFrom(_, _, _)
PickFrom(i, cumulative, target) ==
    IF i > Len(RANDOM_CHAR_CATEGORY_POOLS) THEN Len(RANDOM_CHAR_CATEGORY_POOLS)
    ELSE IF target < cumulative + RANDOM_CHAR_CATEGORY_POOLS[i].weight THEN i
    ELSE PickFrom(i + 1, cumulative + RANDOM_CHAR_CATEGORY_POOLS[i].weight, target)

PickRandomCategory(target) == PickFrom(1, 0, target)

\* A validator is a predicate on characters, given by the set it accepts.
NoValidator == [present |-> FALSE, accepts |-> {}]
Validator(accepts) == [present |-> TRUE, accepts |-> accepts]
Accepts(v, char) == char \in v.accepts

\* A scan that takes the first pool character without asking the validator.
FindFirst(pool, v) == IF pool = <<>> THEN 0 ELSE pool[1]

\* RANDOM_CHAR_POOL.find((item) => validator(item)): the first accepted
\* character in pool order, 0 (undefined) when there is none.
FindAccepted(pool, v) ==
    LET hits == {i \in DOMAIN pool : Accepts(v, pool[i])}
    IN IF hits = {} THEN 0 ELSE pool[CHOOSE i \in hits : \A j \in hits : i <= j]

\* The code after the loop of randomChar: the linear scan, then "F".
RandomCharFallback(pool, v) ==
    IF v.present /\ FindAccepted(pool, v) # 0 THEN FindAccepted(pool, v) ELSE 70

(***************************************************************************)
(* Font loader: loadFontFace / loadFontOnce                                *)
(***************************************************************************)
\* page.tsx 373-378: weight and size are fixed, so the loadCache key
\* `${cssHref}|${fontFamily}|700|256` is one per catalogue entry.
KeyOf(font) == font

FamilyOf(font) == <<"family", font>>
SansSerif == <<"sans-serif", 0>>

\* The values of loadCache and the promises loadFontFace returns.
NoEntry == [kind |-> "none", load |-> 0]
ResolvedPromise == [kind |-> "resolved", load |-> 0]
LoadPromise(i) == [kind |-> "load", load |-> i]

\* The state of a promise loadFontFace returned, given the loadFontOnce operations.
PromiseStateIn(ls, p) == IF p.kind = "load" THEN ls[p.load].settled ELSE "resolved"
PromiseState(p) == PromiseStateIn(loads, p)

\* ensureFontStylesheet for a catalogue cssHref: the link is created on the
\* first request and reused afterwards (the catalogue's identifiers are distinct).
EnsureCatalogStylesheet(links, font) ==
    IF links[font] = "none" THEN [links EXCEPT ![font] = "loading"] ELSE links

\* A cleanup that leaves the "error" listener on the link.
KeepListener(op) == op

\* cleanup (lines 74-76): link.removeEventListener("error", onError).
Cleanup(op) == [op EXCEPT !.listening = FALSE]

\* loadFontOnce: installs the link, then either returns at once (no document.fonts)
\* or starts document.fonts.load, registers onError on the link and stays pending
\* until one of the two settles it.
LoadFontOnce(st, key) ==
    LET op == IF st.fontsApi
              THEN [key |-> key, fontLoad |-> "pending", settled |-> "pending",
                    listening |-> TRUE]
              ELSE [key |-> key, fontLoad |-> "none", settled |-> "resolved",
                    listening |-> FALSE]
    IN [st EXCEPT !.linkState = EnsureCatalogStylesheet(st.linkState, key),
                  !.loads = Append(st.loads, op),
                  !.lastSettled = IF st.fontsApi THEN st.lastSettled
                                  ELSE Len(st.loads) + 1]

\* A variant of loadFontFace that never consults loadCache.
LoadFontFaceUncached(st, key) ==
    LET started == LoadFontOnce(st, key)
        i == Len(started.loads)
    IN [st |-> [started EXCEPT !.loadCache[key] =
                    IF started.loads[i].settled = "resolved"
                    THEN ResolvedPromise ELSE LoadPromise(i)],
        promise |-> LoadPromise(i)]

\* loadFontFace: a cached promise (pending or resolved) is returned as it is;
\* otherwise a loadFontOnce operation is started and its promise cached.  The
\* .then of line 123 replaces the entry by a resolved promise on success.
LoadFontFace(st, key) ==
    IF st.loadCache[key] # NoEntry
    THEN [st |-> st, promise |-> st.loadCache[key]]
    ELSE LoadFontFaceUncached(st, key)

(***************************************************************************)
(* Home: the load effect and its continuation                              *)
(***************************************************************************)
\* A continuation that ignores the cancelled flag of its effect run.
LoadContinuationUnguarded(cancelled, outcome, status) ==
    IF outcome = "resolved" THEN "ready" ELSE "error"

\* The code after `await loadFontFace(...)` in one run of the effect:
\* setFontStatus("ready") / setFontStatus("error") unless the run was cancelled.
LoadContinuation(cancelled, outcome, status) ==
    IF cancelled THEN status
    ELSE IF outcome = "resolved" THEN "ready" ELSE "error"

\* The continuations of the effect runs awaiting a promise in S, in the order the
\* runs registered them, applied to fontStatus.
RECURSIVE RunContinuations(_, _, _, _, _)
RunContinuations(efs, n, S, outcome, status) ==
    IF n > Len(efs) THEN status
    ELSE RunContinuations(efs, n + 1, S, outcome,
            IF efs[n].promise \in S /\ ~efs[n].done
            THEN LoadContinuation(efs[n].cancelled, outcome, status)
            ELSE status)

MarkDone(efs, S) ==
    [n \in DOMAIN efs |->
        IF efs[n].promise \in S THEN [efs[n] EXCEPT !.done = TRUE] ELSE efs[n]]

\* A previewFontFamily effect that reacts to "ready" only.
PreviewFamilyReadyOnly(config, status, previous) ==
    IF status = "ready" THEN FamilyOf(config) ELSE previous

\* The previewFontFamily effect, run after a commit that changed fontConfig or
\* fontStatus: only "ready" and "error" change the family.
PreviewFamily(config, status, previous) ==
    IF status = "ready" THEN FamilyOf(config)
    ELSE IF status = "error" THEN SansSerif
    ELSE previous

\* A cleanup that leaves the previous run's flag as it is.
CancelNothing(efs) == efs

\* The cleanup the effect returns: the latest run's `cancelled` becomes true.
CancelPrevious(efs) ==
    IF Len(efs) = 0 THEN efs ELSE [efs EXCEPT ![Len(efs)].cancelled = TRUE]

\* The cleanup of the previous run (cancelled = true) followed by a new run of the
\* fontConfig effect for catalogue entry `font`: setFontStatus("loading"),
\* loadFontFace, and, when the promise is already settled, the continuation.
RunLoadEffect(st, font) ==
    LET n == Len(st.effects)
        wasPending == n > 0 /\ ~st.effects[n].done
        cleaned == CancelPrevious(st.effects)
        r == LoadFontFace(st, KeyOf(font))
        outcome == PromiseStateIn(r.st.loads, r.promise)
        run == [font |-> font, promise |-> r.promise, cancelled |-> FALSE,
                done |-> outcome # "pending", prevPending |-> wasPending]
    IN [r.st EXCEPT
            !.effects = Append(cleaned, run),
            !.fontStatus = IF outcome = "pending" THEN "loading"
                           ELSE LoadContinuation(FALSE, outcome, "loading")]

PageState ==
    [effects |-> effects, loads |-> loads, loadCache |-> loadCache,
     linkState |-> linkState, fontStatus |-> fontStatus, fontsApi |-> fontsApi,
     lastSettled |-> lastSettled]

SetPageState(st) ==
    /\ effects' = st.effects
    /\ loads' = st.loads
    /\ loadCache' = st.loadCache
    /\ linkState' = st.linkState
    /\ fontStatus' = st.fontStatus
    /\ fontsApi' = st.fontsApi
    /\ lastSettled' = st.lastSettled

\* The component before its effects ran: fontConfig is the first catalogue
\* entry and fontStatus "loading".
BeforeMount(api) ==
    [effects |-> <<>>, loads |-> <<>>, loadCache |-> [k \in Fonts |-> NoEntry],
     linkState |-> [k \in Fonts |-> "none"], fontStatus |-> "loading",
     fontsApi |-> api, lastSettled |-> 0]

\* Mounting runs the selectedFont effect, which stores a new fontConfig object,
\* and the load effect twice: for the initial fontConfig and for the new object.
Mounted(api) == RunLoadEffect(RunLoadEffect(BeforeMount(api), 1), 1)

(***************************************************************************)
(* Home: the canvas draw effect                                            *)
(***************************************************************************)
CANVAS_SIZE == 256

\* displayChar: the first code point of charInput, "F" when it is empty.
DisplayChar(input) == IF Len(input) = 0 THEN 70 ELSE input[1]

\* radiusPx = Math.min(size / 2, size * cornerRadius).
RadiusPx(size, radius) == MathMin(Div(size, Num(2)), Mul(size, radius))

\* A draw that takes the circle branch only for radiusPx > size / 2.
DrawCanvasStrictCircle(bg, fg, radius, char, family) ==
    LET size == Num(CANVAS_SIZE)
        radiusPx == RadiusPx(size, radius)
    IN [shape |-> IF Lt(Div(size, Num(2)), radiusPx) THEN "circle" ELSE "roundedRect",
        radiusPx |-> radiusPx,
        fillStyle |-> bg,
        textStyle |-> fg,
        fontFamily |-> family,
        text |-> char]

\* The draw effect (page.tsx 412-453): the background path is a full circle when
\* radiusPx >= size / 2 and a rounded rectangle of four arcs otherwise; the
\* glyph is filled in fgColor with the font family previewFontFamily.
DrawCanvas(bg, fg, radius, char, family) ==
    LET size == Num(CANVAS_SIZE)
        radiusPx == RadiusPx(size, radius)
    IN [shape |-> IF Ge(radiusPx, Div(size, Num(2))) THEN "circle" ELSE "roundedRect",
        radiusPx |-> radiusPx,
        fillStyle |-> bg,
        textStyle |-> fg,
        fontFamily |-> family,
        text |-> char]

\* The draw effect after a commit.
DrawEffect ==
    canvas' = DrawCanvas(bgColor', fgColor', cornerRadius', DisplayChar(charInput'),
                         previewFontFamily')

\* The useState initial values of page.tsx 277-280 and the first draw.
DrawInit ==
    /\ charInput = <<70>>
    /\ bgColor = <<"#", "0", "2", "0", "6", "1", "7">>
    /\ fgColor = <<"#", "f", "f", "f", "f", "f", "f">>
    /\ cornerRadius = Rat(1, 5)
    /\ canvas = DrawCanvas(bgColor, fgColor, cornerRadius, DisplayChar(charInput),
                           previewFontFamily)

\* What an action of the font state machine leaves alone; the draw effect runs
\* when previewFontFamily changed.
AppFrame ==
    /\ UNCHANGED <<charInput, bgColor, fgColor, cornerRadius>>
    /\ DrawEffect
    /\ UNCHANGED <<sheetVars, icoVars, colorVars, randVars, exportVars, timerVars,
                   urlVars>>

PageFrame == AppFrame /\ UNCHANGED uiVars

SheetInit == head = {} /\ stylesheetCache = {} /\ requested = {}

IcoInit == png = <<>> /\ ico = <<>> /\ pngLength = [hi |-> 0, lo |-> 0] /\ icoHeader = <<>>

ColorIdle ==
    colorPc = "idle" /\ hexIn = <<>> /\ hsva = <<>> /\ rgba = <<>> /\ hexOut = <<>>

RandIdle ==
    /\ validator = NoValidator /\ attempt = 0
    /\ randomCharPc = "idle" /\ randomCharResult = 0

ExportInit == exports = <<>> /\ downloads = <<>>

TimerInit ==
    /\ randomizeTimeoutRef = 0 /\ randomizeIntervalRef = 0
    /\ timeouts = {} /\ intervals = {} /\ nextTimerId = 1
    /\ lastPointer = "none" /\ mounted = TRUE

\* The font URL form before anything was typed: DEFAULT_FONT_URL and its descriptor.
UrlIdle ==
    /\ fontInput = DEFAULT_FONT_URL
    /\ derivedConfig = DEFAULT_FONT_CONFIG
    /\ urlFontConfig = DEFAULT_FONT_CONFIG
    /\ urlFontStatus = "loading"
    /\ urlPc = "idle"

NormIdle == normValue = Undefined /\ normFallback = Undefined /\ normResult = Undefined

\* The five state values randomizeOnce sets.
RandomizedFields == {"selectedFontId", "charInput", "bgColor", "fgColor", "cornerRadius"}

EmptyQueue ==
    [fields |-> {}, font |-> 0, char |-> 0, draws |-> <<>>, fg |-> <<>>, random |-> Num(0)]

BatchIdle ==
    /\ handlerPc = 0
    /\ updateQueue = EmptyQueue
    /\ renderedStamp = [field \in RandomizedFields |-> 0]
    /\ randomizeCount = 0

ClockIdle ==
    /\ sincePress = 0 /\ remaining = <<>>
    /\ pressed = FALSE /\ clickPending = FALSE /\ release = "none"
    /\ timerFires = 0 /\ lastFireAfter = 0 /\ clickFires = 0
    /\ lastEvent = "none"

\* No clearFontLoadCache yet; the calls of the mount are not recorded.
NoCall ==
    [key |-> 0, started |-> FALSE, returned |-> "none", afterClear |-> FALSE,
     afterResolve |-> FALSE]

NoReactions == [ops |-> {}, outcome |-> "none"]

LoaderIdle ==
    /\ reactions = NoReactions
    /\ clears = FALSE
    /\ cleared = {}
    /\ resolvedKeys = {k \in Fonts : loadCache[k] = ResolvedPromise}
    /\ lastCall = NoCall

SyncIdle == syncPc = "idle" /\ syncRounds = 0

UiIdle == NormIdle /\ BatchIdle /\ ClockIdle /\ LoaderIdle /\ SyncIdle

OtherInit ==
    /\ SheetInit /\ IcoInit /\ ColorIdle /\ RandIdle /\ ExportInit /\ TimerInit
    /\ UrlIdle /\ UiIdle

PageInit ==
    /\ selectedFontId = 1
    /\ fontConfig = 1
    /\ \E api \in BOOLEAN :
        LET st == Mounted(api)
        IN /\ effects = st.effects
           /\ loads = st.loads
           /\ loadCache = st.loadCache
           /\ linkState = st.linkState
           /\ fontStatus = st.fontStatus
           /\ fontsApi = api
           /\ lastSettled = st.lastSettled
           /\ previewFontFamily = PreviewFamily(1, st.fontStatus, SansSerif)
    /\ DrawInit

Init == PageInit /\ OtherInit

\* The initial state of the specifications that leave the page alone.
PureInit == Init /\ fontsApi

\* FontPicker onChange / randomizeOnce: setSelectedFontId(font).  The commit runs
\* the selectedFont effect (fontStatus "loading", a new fontConfig), the next
\* commit runs the load effect for it.
SetSelectedFontId(font) ==
    /\ font # selectedFontId
    /\ Len(effects) < MaxEffects
    /\ selectedFontId' = font
    /\ fontConfig' = font
    /\ LET st == RunLoadEffect(PageState, font)
       IN /\ SetPageState(st)
          /\ previewFontFamily' = PreviewFamily(font, st.fontStatus, previewFontFamily)

SelectFont(font) == SetSelectedFontId(font) /\ PageFrame

\* A chain whose .catch leaves the entry of the key in loadCache.
KeepEntry(entry, outcome) == IF outcome = "resolved" THEN ResolvedPromise ELSE entry

\* The chain of loadFontFace (lines 116-125) on the entry of its key:
\* loadCache.delete(key) on rejection, loadCache.set(key, Promise.resolve()) on
\* success, whatever the entry holds by then.
ChainedEntry(entry, outcome) == IF outcome = "resolved" THEN ResolvedPromise ELSE NoEntry

\* The operations S settle with `outcome`: settled = true and cleanup() in
\* loadFontOnce.
SettleOperations(S, outcome, nextLoads) ==
    /\ loads' = [i \in DOMAIN nextLoads |->
                   IF i \in S THEN Cleanup([nextLoads[i] EXCEPT !.settled = outcome])
                   ELSE nextLoads[i]]
    /\ lastSettled' = IF S = {} THEN lastSettled ELSE CHOOSE i \in S : TRUE

\* Reactions that never run the code after the await.
DropReactions(S, outcome) ==
    UNCHANGED <<loadCache, effects, fontStatus, previewFontFamily>>

\* The promise reactions of the operations S settled with `outcome`, run as
\* microtasks: the chain of loadFontFace on the cache, then the code after the
\* await in each effect run that was handed the promise, then the commit.
PromiseReactions(S, outcome) ==
    LET promises == {LoadPromise(i) : i \in S}
        keys == {loads[i].key : i \in S}
        status == RunContinuations(effects, 1, promises, outcome, fontStatus)
    IN /\ loadCache' = [k \in Fonts |->
                          IF k \in keys THEN ChainedEntry(loadCache[k], outcome)
                          ELSE loadCache[k]]
       /\ effects' = MarkDone(effects, promises)
       /\ fontStatus' = status
       /\ previewFontFamily' = PreviewFamily(fontConfig, status, previewFontFamily)

\* A settlement together with the microtasks it queues.
SettleLoads(S, outcome, nextLoads) ==
    /\ SettleOperations(S, outcome, nextLoads)
    /\ PromiseReactions(S, outcome)

\* document.fonts.load of operation i resolves: the .then of lines 90-97.
FontLoadThen(i) ==
    /\ loads[i].fontLoad = "pending"
    /\ LET next == [loads EXCEPT ![i].fontLoad = "resolved"]
       IN SettleLoads(IF loads[i].settled = "pending" THEN {i} ELSE {}, "resolved", next)
    /\ UNCHANGED <<selectedFontId, fontConfig, linkState, fontsApi>>

FontLoadResolve(i) == FontLoadThen(i) /\ PageFrame

\* document.fonts.load of operation i rejects: the .catch of lines 98-105.
FontLoadCatch(i) ==
    /\ loads[i].fontLoad = "pending"
    /\ LET next == [loads EXCEPT ![i].fontLoad = "rejected"]
       IN SettleLoads(IF loads[i].settled = "pending" THEN {i} ELSE {}, "rejected", next)
    /\ UNCHANGED <<selectedFontId, fontConfig, linkState, fontsApi>>

FontLoadReject(i) == FontLoadCatch(i) /\ PageFrame

\* The listeners the error event of a link calls; { once: true } removes each
\* of them as it is called.
Listeners(font) == {i \in DOMAIN loads : loads[i].key = KeyOf(font) /\ loads[i].listening}

CallOnce(font) ==
    [i \in DOMAIN loads |->
        IF i \in Listeners(font) THEN [loads[i] EXCEPT !.listening = FALSE] ELSE loads[i]]

\* The stylesheet link of a cssHref fires its error event: onError of every
\* operation listening on that link, which returns at once when the operation
\* has settled (lines 78-85).
OnError(font) ==
    /\ linkState[font] = "loading"
    /\ linkState' = [linkState EXCEPT ![font] = "error"]
    /\ SettleLoads({i \in Listeners(font) : loads[i].settled = "pending"},
                   "rejected", CallOnce(font))
    /\ UNCHANGED <<selectedFontId, fontConfig, fontsApi>>

LinkError(font) == OnError(font) /\ PageFrame

\* The stylesheet link finishes loading: no listener of the loader is involved.
OnLoad(font) ==
    /\ linkState[font] = "loading"
    /\ linkState' = [linkState EXCEPT ![font] = "loaded"]
    /\ UNCHANGED <<selectedFontId, fontConfig, fontStatus, previewFontFamily, effects,
                   loads, loadCache, fontsApi, lastSettled>>

LinkLoad(font) == OnLoad(font) /\ PageFrame

\* The texts typed into the character input: "F" and "AB".
CharInputs == {<<70>>, <<65, 66>>}

\* The character input's onChange: setCharInput(event.target.value); the commit
\* runs the draw effect for the new displayChar.
SetCharInput(text) ==
    /\ text # charInput
    /\ charInput' = text
    /\ UNCHANGED <<bgColor, fgColor, cornerRadius>>
    /\ UNCHANGED pageVars
    /\ DrawEffect
    /\ UNCHANGED <<sheetVars, icoVars, colorVars, randVars, exportVars, timerVars,
                   urlVars, uiVars>>

Next ==
    \/ \E font \in Fonts : SelectFont(font)
    \/ \E text \in CharInputs : SetCharInput(text)
    \/ \E i \in DOMAIN loads : FontLoadResolve(i)
    \/ \E i \in DOMAIN loads : FontLoadReject(i)
    \/ \E font \in Fonts : LinkError(font)
    \/ \E font \in Fonts : LinkLoad(font)

Spec == Init /\ [][Next]_vars

(***************************************************************************)
(* Stylesheet installer: createIdentifier / ensureFontStylesheet           *)
(***************************************************************************)
\* A cssHref is a string of Latin-1 characters, here a sequence of byte values
\* over 62 (">"), 63 ("?") and 97 ("a"), of length 1..MaxHrefLen.
MaxHrefLen == 3
\* The number of distinct cssHrefs requested in one behaviour.
MaxSheets == 2

HrefBytes == {62, 63, 97}
Hrefs == UNION {[1..n -> HrefBytes] : n \in 1..MaxHrefLen}

\* btoa: three bytes become four base64 digits 0..63 ("A".."Z", "a".."z",
\* "0".."9", then 62 = "+" and 63 = "/"); a last group of one or two bytes is
\* padded with "=", written 64.
RECURSIVE Btoa(_)
Btoa(s) ==
    IF Len(s) = 0 THEN <<>>
    ELSE IF Len(s) = 1
    THEN <<s[1] \div 4, (s[1] % 4) * 16, 64, 64>>
    ELSE IF Len(s) = 2
    THEN <<s[1] \div 4, (s[1] % 4) * 16 + (s[2] \div 16), (s[2] % 16) * 4, 64>>
    ELSE <<s[1] \div 4, (s[1] % 4) * 16 + (s[2] \div 16),
           (s[2] % 16) * 4 + (s[3] \div 64), s[3] % 64>>
         \o Btoa(SubSeq(s, 4, Len(s)))

\* [a-zA-Z0-9]: the base64 digits below 62.
IsAlphanumeric(digit) == digit < 62

\* createIdentifier in a browser (btoa is a function): the base64 text with "="
\* and every other non-alphanumeric character removed, after the fixed prefix
\* "favigen-font-".
CreateIdentifier(cssHref) == SelectSeq(Btoa(cssHref), IsAlphanumeric)

\* ensureFontStylesheet(cssHref): the cached link if it is still in the head,
\* else a link found in the document by the identifier (cached for this
\* cssHref and reused), else a new link appended to the head.
EnsureFontStylesheet(cssHref) ==
    LET cached == {c.link : c \in {c \in stylesheetCache : c.href = cssHref}}
        identifier == CreateIdentifier(cssHref)
        found == {l \in head : l.id = identifier}
        others == {c \in stylesheetCache : c.href # cssHref}
        nextLink == [href |-> cssHref, id |-> identifier]
    IN IF cached \cap head # {}
       THEN UNCHANGED <<head, stylesheetCache>>
       ELSE IF found # {}
       THEN /\ head' = head
            /\ stylesheetCache' =
                 others \cup {[href |-> cssHref, link |-> CHOOSE l \in found : TRUE]}
       ELSE /\ head' = head \cup {nextLink}
            /\ stylesheetCache' = others \cup {[href |-> cssHref, link |-> nextLink]}

\* A caller (loadFontOnce) asks for the stylesheet of cssHref.
RequestStylesheet(cssHref) ==
    /\ cssHref \in requested \/ Cardinality(requested) < MaxSheets
    /\ requested' = requested \cup {cssHref}
    /\ EnsureFontStylesheet(cssHref)
    /\ UNCHANGED <<pageVars, icoVars, colorVars, drawVars, randVars, exportVars,
                   timerVars, urlVars, uiVars>>

SheetNext == \E cssHref \in Hrefs : RequestStylesheet(cssHref)

SheetSpec == PureInit /\ [][SheetNext]_vars

\* C4: the head holds exactly one stylesheet link for each distinct cssHref
\* requested so far, and no other link.
C4_OneLinkPerHref ==
    /\ \A h \in requested : Cardinality({l \in head : l.href = h}) = 1
    /\ Cardinality(head) = Cardinality(requested)

(***************************************************************************)
(* ICO builder: createIcoFromPng                                           *)
(***************************************************************************)
\* PNG blobs are byte sequences of length 0..MaxPngLen over PngBytes.
MaxPngLen == 3

PngBytes == {0, 1, 137, 255}
PngInputs == UNION {[1..n -> PngBytes] : n \in 0..MaxPngLen}

\* A byte length n is written as the pair hi, lo with n = hi * 65536 + lo and
\* 0 <= lo < 65536, so that lengths up to 2^32 and beyond stay within the
\* integers of TLC.
LengthOf(bytes) == [hi |-> Len(bytes) \div 65536, lo |-> Len(bytes) % 65536]
PngLengths ==
    [hi : {0, 1, 255, 256, 33026, 65535, 65536}, lo : {0, 1, 22, 255, 256, 772, 65535}]

\* DataView.setUint16(offset, value) without the littleEndian argument.
SetUint16BigEndian(value) == <<(value \div 256) % 256, value % 256>>

\* DataView.setUint16(offset, value, true): the two bytes written, low byte first.
SetUint16(value) == <<value % 256, (value \div 256) % 256>>

\* DataView.setUint32(offset, value) without the littleEndian argument.
SetUint32BigEndian(n) ==
    <<(n.hi \div 256) % 256, n.hi % 256, (n.lo \div 256) % 256, n.lo % 256>>

\* DataView.setUint32(offset, value, true): value modulo 2^32, low byte first.
SetUint32(n) ==
    <<n.lo % 256, (n.lo \div 256) % 256, n.hi % 256, (n.hi \div 256) % 256>>

\* DataView.setUint8(offset, value).
SetUint8(value) == <<value % 256>>

\* The 22 bytes of `header` after lines 230-242, for a PNG of n bytes.
IcoHeader(n) ==
    SetUint16(0) \o SetUint16(1) \o SetUint16(1)
    \o SetUint8(0) \o SetUint8(0) \o SetUint8(0) \o SetUint8(0)
    \o SetUint16(1) \o SetUint16(32)
    \o SetUint32(n) \o SetUint32([hi |-> 0, lo |-> 22])

\* A Blob built with its two parts in the wrong order.
CreateIcoPayloadFirst(pngBytes) == pngBytes \o IcoHeader(LengthOf(pngBytes))

\* createIcoFromPng: new Blob([header, pngBytes]).
CreateIcoFromPng(pngBytes) == IcoHeader(LengthOf(pngBytes)) \o pngBytes

\* handleDownloadIco wraps the PNG blob it was given.
ExportIco(pngBytes) ==
    /\ png' = pngBytes
    /\ ico' = CreateIcoFromPng(pngBytes)
    /\ UNCHANGED <<pngLength, icoHeader>>
    /\ UNCHANGED <<pageVars, sheetVars, colorVars, drawVars, randVars, exportVars,
                   timerVars, urlVars, uiVars>>

\* The header createIcoFromPng writes for a PNG blob of n bytes.
WriteHeader(n) ==
    /\ pngLength' = n
    /\ icoHeader' = IcoHeader(n)
    /\ UNCHANGED <<png, ico>>
    /\ UNCHANGED <<pageVars, sheetVars, colorVars, drawVars, randVars, exportVars,
                   timerVars, urlVars, uiVars>>

IcoNext ==
    \/ \E pngBytes \in PngInputs : ExportIco(pngBytes)
    \/ \E n \in PngLengths : WriteHeader(n)

IcoSpec == PureInit /\ [][IcoNext]_vars

\* ico = <<>> and icoHeader = <<>> hold only before the first export.
Exported == ico # <<>>
HeaderWritten == icoHeader # <<>>

\* C5: the ICO of a PNG of N bytes has 22 + N bytes, and its bytes 22..22+N-1
\* are the PNG's bytes in order.
C5_IcoIsHeaderThenPng ==
    Exported =>
        /\ Len(ico) = 22 + Len(png)
        /\ \A k \in 1..Len(png) : ico[22 + k] = png[k]

C5_Witness ==
    /\ Exported
    /\ Len(png) = MaxPngLen
    /\ png[1] = 137 /\ png[MaxPngLen] = 255
    /\ Len(ico) = 22 + MaxPngLen
    /\ ico[23] = 137 /\ ico[22 + MaxPngLen] = 255

FixedHeaderPrefix == <<0, 0, 1, 0, 1, 0, 0, 0, 0, 0, 1, 0, 32, 0>>

\* C6: bytes 0..13 of every ICO are 00 00 01 00 01 00 00 00 00 00 01 00 20 00,
\* whatever the PNG's content and length.
C6_FixedHeaderPrefix ==
    /\ Exported => SubSeq(ico, 1, 14) = FixedHeaderPrefix
    /\ HeaderWritten => SubSeq(icoHeader, 1, 14) = FixedHeaderPrefix

\* Two PNGs of different lengths, one of them not empty, with the same prefix.
C6_Witness ==
    /\ Exported /\ HeaderWritten
    /\ png # <<>> /\ png[1] # 0
    /\ pngLength # LengthOf(png)
    /\ SubSeq(ico, 1, 14) = SubSeq(icoHeader, 1, 14)
    /\ ico[3] = 1 /\ ico[13] = 32

\* The little-endian value of four bytes, as the pair hi, lo.
DecodeUint32(bytes) ==
    [hi |-> bytes[3] + 256 * bytes[4], lo |-> bytes[1] + 256 * bytes[2]]

\* C7: for a PNG length N < 2^32, bytes 14..17 of the header decode
\* little-endian to N and bytes 18..21 decode to 22.
C7_SizeAndOffsetFields ==
    /\ (HeaderWritten /\ pngLength.hi < 65536) =>
          /\ DecodeUint32(SubSeq(icoHeader, 15, 18)) = pngLength
          /\ DecodeUint32(SubSeq(icoHeader, 19, 22)) = [hi |-> 0, lo |-> 22]
    /\ Exported =>
          /\ DecodeUint32(SubSeq(ico, 15, 18)) = LengthOf(png)
          /\ DecodeUint32(SubSeq(ico, 19, 22)) = [hi |-> 0, lo |-> 22]

\* N = 0x81020304, which is above 2^31: the size field is 04 03 02 81.
C7_Witness ==
    /\ HeaderWritten
    /\ pngLength = [hi |-> 33026, lo |-> 772]
    /\ SubSeq(icoHeader, 15, 18) = <<4, 3, 2, 129>>
    /\ SubSeq(icoHeader, 19, 22) = <<22, 0, 0, 0>>

(***************************************************************************)
(* Colour model: normalizeHex, hexToHsva, hsvaToRgba, hsvaToHex            *)
(***************************************************************************)
Black == <<"#", "0", "0", "0", "0", "0", "0">>

NormalizeHex(input) ==
    LET trimmed == Trim(input)
        hex == IF Len(trimmed) > 0 /\ trimmed[1] = "#" THEN trimmed
               ELSE <<"#">> \o trimmed
    IN IF Len(hex) = 4
       THEN <<"#", hex[2], hex[2], hex[3], hex[3], hex[4], hex[4]>>
       ELSE IF Len(hex) >= 7 THEN SubSeq(hex, 1, 7)
       ELSE Black

\* The hue without the correction of negative values.
HueDegreesUnwrapped(r, g, b) ==
    LET max == MathMax(MathMax(r, g), b)
        min == MathMin(MathMin(r, g), b)
        delta == Sub(max, min)
    IN IF StrictNe(delta, Num(0))
       THEN Mul(IF StrictEq(max, r) THEN Fmod(Div(Sub(g, b), delta), 6)
                ELSE IF StrictEq(max, g) THEN Add(Div(Sub(b, r), delta), Num(2))
                ELSE Add(Div(Sub(r, g), delta), Num(4)),
                Num(60))
       ELSE Num(0)

\* Lines 172-185 of hexToHsva: the hue in degrees.
HueDegrees(r, g, b) ==
    LET h == HueDegreesUnwrapped(r, g, b)
    IN IF Lt(h, Num(0)) THEN Add(h, Num(360)) ELSE h

HexToHsva(hex) ==
    LET normalized == NormalizeHex(hex)
        r == Div(ParseInt16(SubSeq(normalized, 2, 3)), Num(255))
        g == Div(ParseInt16(SubSeq(normalized, 4, 5)), Num(255))
        b == Div(ParseInt16(SubSeq(normalized, 6, 7)), Num(255))
        max == MathMax(MathMax(r, g), b)
        min == MathMin(MathMin(r, g), b)
        delta == Sub(max, min)
    IN [h |-> HueDegrees(r, g, b),
        s |-> IF StrictEq(max, Num(0)) THEN Num(0) ELSE Div(delta, max),
        v |-> max,
        a |-> Num(1)]

\* A chroma that leaves the saturation out.
ChromaWithoutSaturation(color) == color.v

\* Line 194 of hsvaToRgba: c = v * s.
Chroma(color) == Mul(color.v, color.s)

HsvaToRgba(color) ==
    LET c == Chroma(color)
        hh == Div(color.h, Num(60))
        x == Mul(c, Sub(Num(1), MathAbs(Sub(Fmod(hh, 2), Num(1)))))
        m == Sub(color.v, c)
        In(low, high) == Ge(hh, Num(low)) /\ Lt(hh, Num(high))
        zero == Num(0)
        rgb == IF In(0, 1) THEN <<c, x, zero>>
               ELSE IF In(1, 2) THEN <<x, c, zero>>
               ELSE IF In(2, 3) THEN <<zero, c, x>>
               ELSE IF In(3, 4) THEN <<zero, x, c>>
               ELSE IF In(4, 5) THEN <<x, zero, c>>
               ELSE <<c, zero, x>>
        ToByte(value) == MathRound(Mul(Add(value, m), Num(255)))
    IN [r |-> Clamp(ToByte(rgb[1]), Num(0), Num(255)),
        g |-> Clamp(ToByte(rgb[2]), Num(0), Num(255)),
        b |-> Clamp(ToByte(rgb[3]), Num(0), Num(255)),
        a |-> Clamp(color.a, Num(0), Num(1))]

HsvaToHex(color) ==
    LET c == HsvaToRgba(color)
    IN <<"#">> \o ToHex(c.r) \o ToHex(c.g) \o ToHex(c.b)

\* ---- the inputs of the colour conversions
\* Free-form texts: every string of length 0..MaxHexLen over FreeChars.
MaxHexLen == 7

FreeChars == {"#", "f", "g", " "}
FreeTexts == UNION {[1..n -> FreeChars] : n \in 0..MaxHexLen}

\* "#" followed by six digits drawn from SixDigitChars.
SixDigitChars == {"0", "1", "8", "c", "f", "C"}
SixDigitTexts == {<<"#">> \o digits : digits \in [1..6 -> SixDigitChars]}

HexTexts == FreeTexts \cup SixDigitTexts

HueInputs == {Num(-60), Num(0), Num(30), Num(60), Rat(181, 2), Num(120), Num(150),
              Num(180), Num(210), Num(240), Num(270), Num(300), Num(330),
              Rat(719, 2), Num(360), Num(400)}
SaturationInputs == {Num(0), Rat(1, 3), Rat(1, 2), Num(1)}
ValueInputs == {Num(0), Rat(1, 255), Rat(1, 2), Rat(128, 255), Num(1)}
AlphaInputs == {Num(0), Rat(1, 2), Num(1), Rat(3, 2)}
HsvaInputs == [h : HueInputs, s : SaturationInputs, v : ValueInputs, a : AlphaInputs]

\* One conversion per behaviour: the input is drawn in the initial state.
ColorInit ==
    /\ PageInit /\ fontsApi /\ SheetInit /\ IcoInit
    /\ RandIdle /\ ExportInit /\ TimerInit /\ UrlIdle /\ UiIdle
    /\ rgba = <<>> /\ hexOut = <<>>
    /\ \/ colorPc = "parse" /\ hexIn \in HexTexts /\ hsva = <<>>
       \/ colorPc = "render" /\ hexIn = <<>> /\ hsva \in HsvaInputs

\* hexToHsva(hexIn), then hsvaToRgba and hsvaToHex of the result (the colour
\* picker reports hsvaToHex(hsva) for the text typed into its input).
ParseHex ==
    /\ colorPc = "parse"
    /\ colorPc' = "parsed"
    /\ hsva' = HexToHsva(hexIn)
    /\ rgba' = HsvaToRgba(hsva')
    /\ hexOut' = HsvaToHex(hsva')
    /\ UNCHANGED hexIn
    /\ UNCHANGED <<pageVars, sheetVars, icoVars, drawVars, randVars, exportVars,
                   timerVars, urlVars, uiVars>>

\* hsvaToRgba and hsvaToHex of an HSVA colour.
RenderHsva ==
    /\ colorPc = "render"
    /\ colorPc' = "rendered"
    /\ rgba' = HsvaToRgba(hsva)
    /\ hexOut' = HsvaToHex(hsva)
    /\ UNCHANGED <<hexIn, hsva>>
    /\ UNCHANGED <<pageVars, sheetVars, icoVars, drawVars, randVars, exportVars,
                   timerVars, urlVars, uiVars>>

ColorNext == ParseHex \/ RenderHsva

ColorSpec == ColorInit /\ [][ColorNext]_vars

IsSixDigitHex(text) ==
    Len(text) = 7 /\ text[1] = "#" /\ \A i \in 2..7 : IsHexDigit(text[i])

IsLowerCaseHex(text) ==
    Len(text) = 7 /\ text[1] = "#"
    /\ \A i \in 2..7 : \E k \in 1..16 : LowerDigits[k] = text[i]

\* C8 as claimed: hsvaToHex(hexToHsva(x)) = x for every "#" followed by six
\* hexadecimal digits of either case.
C8_RoundTripAnyCase ==
    (colorPc = "parsed" /\ IsSixDigitHex(hexIn)) => hexOut = hexIn

\* C8 amended: hsvaToHex(hexToHsva(x)) = x for every "#" followed by six
\* lower-case hexadecimal digits.
C8_RoundTripLowerCase ==
    (colorPc = "parsed" /\ IsLowerCaseHex(hexIn)) => hexOut = hexIn

\* #c0018f: red is the largest channel and green < blue, so the hue is
\* computed negative and corrected by 360.
C8_Witness ==
    /\ colorPc = "parsed"
    /\ hexIn = <<"#", "c", "0", "0", "1", "8", "f">>
    /\ Lt(Num(300), hsva.h)
    /\ hexOut = hexIn

WellFormedHex(text) ==
    LET trimmed == Trim(text)
        digits == IF Len(trimmed) > 0 /\ trimmed[1] = "#" THEN Tail(trimmed) ELSE trimmed
    IN Len(digits) \in {3, 6} /\ \A i \in 1..Len(digits) : IsHexDigit(digits[i])

\* C10: every malformed text is converted to black, "#000000".
C10_MalformedIsBlack ==
    (colorPc = "parsed" /\ ~WellFormedHex(hexIn)) => hexOut = Black

(***************************************************************************)
(* Claims about font loading                                               *)
(***************************************************************************)
CurrentRun == effects[Len(effects)]

Settled(p) == PromiseState(p) # "pending"

StatusOf(outcome) == IF outcome = "resolved" THEN "ready" ELSE "error"

C1_StatusFromCurrentLoad ==
    fontStatus \in {"ready", "error"} =>
        /\ CurrentRun.font = fontConfig
        /\ CurrentRun.promise.kind = "load" =>
              loads[CurrentRun.promise.load].key = KeyOf(fontConfig)
        /\ Settled(CurrentRun.promise)
        /\ fontStatus = StatusOf(PromiseState(CurrentRun.promise))

C1_StaleSettleIsSilent ==
    \A i \in DOMAIN loads :
        (/\ loads[i].settled = "pending"
         /\ loads'[i].settled # "pending"
         /\ loads[i].key # KeyOf(fontConfig)) => fontStatus' = fontStatus

C2_FinalStatusIsLatest ==
    \A n \in 2..Len(effects) :
        (/\ n = Len(effects)
         /\ effects[n].prevPending
         /\ effects[n].font # effects[n - 1].font
         /\ Settled(effects[n - 1].promise)
         /\ Settled(effects[n].promise))
        => fontStatus = StatusOf(PromiseState(effects[n].promise))

\* A was outstanding when B was requested, B resolved first, A rejected last.
C2_Witness ==
    /\ Len(effects) >= 3
    /\ CurrentRun.prevPending
    /\ CurrentRun.font # effects[Len(effects) - 1].font
    /\ effects[Len(effects) - 1].promise = LoadPromise(lastSettled)
    /\ PromiseState(effects[Len(effects) - 1].promise) = "rejected"
    /\ PromiseState(CurrentRun.promise) = "resolved"
    /\ fontStatus = "ready"

\* C3: at most one loadFontOnce operation is in flight per key, loadCache holds
\* its promise while it is in flight, and every run still waiting for a key
\* awaits exactly that promise.
C3_Coalescing ==
    /\ \A i, j \in DOMAIN loads :
          (i # j /\ loads[i].settled = "pending" /\ loads[j].settled = "pending")
          => loads[i].key # loads[j].key
    /\ \A i \in DOMAIN loads :
          loads[i].settled = "pending" => loadCache[loads[i].key] = LoadPromise(i)
    /\ \A n \in DOMAIN effects :
          ~effects[n].done => effects[n].promise = loadCache[KeyOf(effects[n].font)]

\* A, then B, then A again while A's first load is still in flight: the second
\* request for A awaits the first one's promise and no further load was started.
C3_Witness ==
    /\ Len(effects) = 4
    /\ effects[3].font # effects[4].font
    /\ effects[4].promise = effects[2].promise
    /\ effects[4].promise.kind = "load"
    /\ ~effects[4].done
    /\ Cardinality({i \in DOMAIN loads : loads[i].key = KeyOf(effects[4].font)}) = 1

\* The family the canvas is to use for the current fontStatus.
StatusFamily == IF fontStatus = "ready" THEN FamilyOf(fontConfig) ELSE SansSerif

\* C12: every draw of the canvas uses the active descriptor's fontFamily when
\* fontStatus is "ready" and the generic "sans-serif" family in every other
\* status, also while a newly selected font is loading.
C12_DrawnFamilyFollowsStatus ==
    [][canvas' # canvas => canvas'.fontFamily = StatusFamily']_vars

\* The load awaited by the current run of the load effect goes from pending to
\* rejected in this step, by the link's error event or by document.fonts.load.
ActiveLoadFails ==
    /\ fontStatus = "loading"
    /\ CurrentRun.promise.kind = "load"
    /\ loads[CurrentRun.promise.load].settled = "pending"
    /\ loads'[CurrentRun.promise.load].settled = "rejected"

\* C15: when the load of the active descriptor fails while fontStatus is
\* "loading", fontStatus becomes "error" in the same step and the preview and
\* the canvas use the sans-serif family.
C15_LoadingToError ==
    [][ActiveLoadFails =>
          /\ fontStatus' = "error"
          /\ previewFontFamily' = SansSerif
          /\ canvas'.fontFamily = SansSerif]_vars

\* The previous font was loaded, the current one failed through the error event
\* of its stylesheet link while document.fonts.load was still pending, and the
\* canvas shows the glyph in sans-serif.
C15_Witness ==
    /\ Len(effects) >= 3
    /\ CurrentRun.font # effects[Len(effects) - 1].font
    /\ PromiseState(effects[Len(effects) - 1].promise) = "resolved"
    /\ CurrentRun.promise = LoadPromise(lastSettled)
    /\ loads[lastSettled].settled = "rejected"
    /\ loads[lastSettled].fontLoad = "pending"
    /\ linkState[CurrentRun.font] = "error"
    /\ fontStatus = "error"
    /\ canvas.fontFamily = SansSerif

(***************************************************************************)
(* randomChar as a state machine: one step per attempt of its loop         *)
(***************************************************************************)
PoolSet == {RANDOM_CHAR_POOL[i] : i \in DOMAIN RANDOM_CHAR_POOL}

\* The validators tried: none, one accepting every pool character, one
\* accepting nothing, and validators accepting "F" only, the last pool character
\* only, only characters that are never in the pool (U+3097, U+00AD), two
\* hiragana, the digits.
Validators ==
    {NoValidator} \cup
    {Validator(accepts) : accepts \in
        {PoolSet, {}, {70}, {RANDOM_CHAR_POOL[Len(RANDOM_CHAR_POOL)]},
         {12439, 173}, {12353, 12354}, 48..57}}

\* One call of randomChar per behaviour, with the validator drawn at the call.
RandomInit ==
    /\ PageInit /\ fontsApi /\ SheetInit /\ IcoInit /\ ColorIdle
    /\ ExportInit /\ TimerInit /\ UrlIdle /\ UiIdle
    /\ validator \in Validators
    /\ attempt = 0
    /\ randomCharPc = "draw"
    /\ randomCharResult = 0

RandomFrame ==
    UNCHANGED <<pageVars, sheetVars, icoVars, colorVars, drawVars, exportVars,
                timerVars, urlVars, uiVars>>

\* One iteration of the loop (page.tsx 178-192): a category is picked for
\* `target`, sourcePool[index] is the candidate; a rejected candidate costs an
\* attempt, an accepted one (or any, without validator) is returned.
DrawCandidate(target, index) ==
    /\ randomCharPc = "draw"
    /\ Len(RANDOM_CHAR_POOL) # 0
    /\ attempt < MAX_RANDOM_CHAR_ATTEMPTS
    /\ LET sourcePool == RANDOM_CHAR_CATEGORY_POOLS[PickRandomCategory(target)].pool
       IN /\ index < Len(sourcePool)
          /\ LET candidate == sourcePool[index + 1]
             IN IF validator.present /\ ~Accepts(validator, candidate)
                THEN /\ attempt' = attempt + 1
                     /\ UNCHANGED <<randomCharPc, randomCharResult>>
                ELSE /\ randomCharResult' = candidate
                     /\ randomCharPc' = "done"
                     /\ UNCHANGED attempt
    /\ UNCHANGED validator
    /\ RandomFrame

\* The loop ran out of attempts (page.tsx 193-199): the linear scan, then "F".
ScanPool ==
    /\ randomCharPc = "draw"
    /\ attempt = MAX_RANDOM_CHAR_ATTEMPTS
    /\ randomCharResult' = RandomCharFallback(RANDOM_CHAR_POOL, validator)
    /\ randomCharPc' = "done"
    /\ UNCHANGED <<validator, attempt>>
    /\ RandomFrame

\* Math.random() is in [0, 1): the integer part of target is below the total
\* weight, and the index Math.floor(Math.random() * length) below the length.
RandomNext ==
    \/ \E target \in 0..(RANDOM_CHAR_TOTAL_WEIGHT - 1) :
          \E index \in 0..(2 * MaxRangeLen) : DrawCandidate(target, index)
    \/ ScanPool

\* The loop and the scan are synchronous code: a call keeps running until it
\* returns.
RandomSpec == RandomInit /\ [][RandomNext]_vars /\ WF_vars(RandomNext)

\* The configured ranges of RANDOM_CHAR_CATEGORIES, in full.
InConfiguredRange(codePoint) ==
    \E i \in DOMAIN RANDOM_CHAR_CATEGORIES :
        \E j \in DOMAIN RANDOM_CHAR_CATEGORIES[i].ranges :
            /\ RANDOM_CHAR_CATEGORIES[i].ranges[j].start <= codePoint
            /\ codePoint <= RANDOM_CHAR_CATEGORIES[i].ranges[j].end

\* C11: the character randomChar returns lies in a configured range and is
\* neither a control character, nor the soft hyphen, nor white space, nor the
\* excluded U+3097, whatever the draws and the validator.
C11_ResultIsAllowed ==
    randomCharPc = "done" =>
        /\ InConfiguredRange(randomCharResult)
        /\ randomCharResult >= 32
        /\ ~(randomCharResult >= 127 /\ randomCharResult <= 159)
        /\ randomCharResult # 173
        /\ randomCharResult \notin TrimmedCodePoints
        /\ randomCharResult # 12439

\* Without validator the hiragana U+3098, the neighbour of the excluded U+3097,
\* was drawn and returned.
C11_Witness ==
    /\ randomCharPc = "done"
    /\ ~validator.present
    /\ randomCharResult = 12440

\* The first pool character the validator accepts, in pool order.
IsFirstAccepted(char) ==
    \E j \in DOMAIN RANDOM_CHAR_POOL :
        /\ RANDOM_CHAR_POOL[j] = char
        /\ Accepts(validator, char)
        /\ \A i \in 1..(j - 1) : ~Accepts(validator, RANDOM_CHAR_POOL[i])

C20_Returned ==
    /\ attempt <= MAX_RANDOM_CHAR_ATTEMPTS
    /\ Len(RANDOM_CHAR_POOL) > 0
    /\ randomCharPc = "done" =>
          /\ ~validator.present =>
                attempt = 0 /\ randomCharResult \in PoolSet
          /\ (validator.present /\ validator.accepts \cap PoolSet # {}) =>
                /\ randomCharResult \in PoolSet
                /\ Accepts(validator, randomCharResult)
                /\ attempt = MAX_RANDOM_CHAR_ATTEMPTS => IsFirstAccepted(randomCharResult)
          /\ (validator.present /\ validator.accepts \cap PoolSet = {}) =>
                randomCharResult = 70 /\ attempt = MAX_RANDOM_CHAR_ATTEMPTS

\* C20: randomChar makes at most 50 draws; with a validator that accepts some
\* pool character it returns an accepted pool character (after 50 rejected
\* draws: the first accepted one in pool order); with a validator that accepts
\* no pool character it returns "F"; without validator it returns the first
\* candidate; and every call returns.
C20_RandomCharContract == []C20_Returned /\ <>(randomCharPc = "done")

\* Fifty draws were rejected and the scan returned the only accepted character,
\* the last one of the pool.
C20_Witness ==
    /\ randomCharPc = "done"
    /\ attempt = MAX_RANDOM_CHAR_ATTEMPTS
    /\ validator = Validator({RANDOM_CHAR_POOL[Len(RANDOM_CHAR_POOL)]})
    /\ randomCharResult = RANDOM_CHAR_POOL[Len(RANDOM_CHAR_POOL)]

(***************************************************************************)
(* Home: corner radius and background of the canvas                        *)
(***************************************************************************)
\* The values of the RadiusSlider (min 0, max 0.5, step 0.01), which are also the
\* values Math.round(Math.random() * 50) / 100 of randomizeOnce.
SliderValues == {Rat(k, 100) : k \in 0..50}

BgColors ==
    {<<"#", "0", "2", "0", "6", "1", "7">>, <<"#", "f", "f", "f", "f", "f", "f">>,
     <<"#", "f", "f", "0", "0", "0", "0">>}

DrawFrame ==
    /\ UNCHANGED pageVars
    /\ DrawEffect
    /\ UNCHANGED <<sheetVars, icoVars, colorVars, randVars, exportVars, timerVars,
                   urlVars, uiVars>>

\* RadiusSlider onChange: setCornerRadius(Number(event.target.value)); the
\* commit runs the draw effect.
SetCornerRadius(value) ==
    /\ value # cornerRadius
    /\ cornerRadius' = value
    /\ UNCHANGED <<charInput, bgColor, fgColor>>
    /\ DrawFrame

\* The background ColorPicker's onChange: setBgColor(hex); the commit runs the
\* draw effect.
SetBgColor(hex) ==
    /\ hex # bgColor
    /\ bgColor' = hex
    /\ UNCHANGED <<charInput, fgColor, cornerRadius>>
    /\ DrawFrame

DrawNext ==
    \/ \E value \in SliderValues : SetCornerRadius(value)
    \/ \E hex \in BgColors : SetBgColor(hex)

DrawSpec == PureInit /\ [][DrawNext]_vars

HalfSize == Num(128)

\* C13: the corner radius in pixels is min(128, 256 * cornerRadius); the
\* background is a circle exactly when that radius is at least 128, so
\* cornerRadius = 0.5 gives the circle and every cornerRadius in [0, 0.5) the
\* rounded rectangle.
C13_CornerShape ==
    /\ canvas.radiusPx = (IF Lt(Mul(Num(256), cornerRadius), HalfSize)
                          THEN Mul(Num(256), cornerRadius) ELSE HalfSize)
    /\ canvas.shape = "circle" <=> Ge(canvas.radiusPx, HalfSize)
    /\ canvas.shape \in {"circle", "roundedRect"}
    /\ cornerRadius = Rat(1, 2) => canvas.shape = "circle"
    /\ (Ge(cornerRadius, Num(0)) /\ Lt(cornerRadius, Rat(1, 2))) =>
          canvas.shape = "roundedRect"

\* The slider was moved to 0.5 and the canvas was redrawn with a full circle.
C13_Witness ==
    /\ cornerRadius = Rat(1, 2)
    /\ canvas.shape = "circle"
    /\ canvas.radiusPx = HalfSize

(***************************************************************************)
(* Home: PNG and ICO export (handleDownloadPng, handleDownloadIco)         *)
(***************************************************************************)
\* The number of export clicks.
MaxExports == 2

\* The corner radii the canvas is redrawn with while exports are running.
ExportRadii == {Rat(1, 5), Rat(1, 2)}

\* The PNG file the browser encodes for a bitmap: the start of the PNG signature
\* and two bytes that differ for the bitmaps drawn here (the encoder itself is
\* the browser's).
PngOf(bitmap) ==
    <<137, 80, 78, 71, IF bitmap.shape = "circle" THEN 1 ELSE 0, bitmap.text % 256>>

\* A canvasToPngBlob whose promise resolves also when toBlob gave no blob.
CanvasToPngBlobUnchecked(blob) == "resolved"

\* canvasToPngBlob: the promise resolves with the blob and rejects with
\* Error("Failed to generate PNG") when the callback got null.
CanvasToPngBlob(blob) == IF blob = "blob" THEN "resolved" ELSE "rejected"

\* A read that encodes the canvas as it is at the time of the read.
ReadCanvasAgain(pngBytes, bitmap) == PngOf(bitmap)

\* pngBlob.arrayBuffer(): the bytes of the blob, whatever the canvas shows now.
ReadBlob(pngBytes, bitmap) == pngBytes

Download(i, filename, bytes) == [export |-> i, filename |-> filename, bytes |-> bytes]

\* A click on "Download PNG" / "Download ICO": the handler calls
\* canvasToPngBlob, and canvas.toBlob copies the bitmap at the call.
StartExport(kind) ==
    /\ Len(exports) < MaxExports
    /\ exports' = Append(exports,
            [kind |-> kind, pc |-> "encoding", snapshot |-> canvas, blob |-> "pending",
             png |-> <<>>, icoCalled |-> FALSE])
    /\ UNCHANGED downloads
    /\ UNCHANGED <<pageVars, sheetVars, icoVars, colorVars, drawVars, randVars,
                   timerVars, urlVars, uiVars>>

\* The toBlob callback of export i, with a blob or with null, and the code of
\* the handler after `await canvasToPngBlob(...)`: a PNG export downloads the
\* blob, an ICO export calls createIcoFromPng, which awaits the blob's bytes; a
\* rejection ends the handler.
PngEncoded(i, blob) ==
    /\ exports[i].pc = "encoding"
    /\ LET outcome == CanvasToPngBlob(blob)
           bytes == IF blob = "blob" THEN PngOf(exports[i].snapshot) ELSE <<>>
       IN IF outcome = "rejected"
          THEN /\ exports' = [exports EXCEPT ![i].pc = "rejected", ![i].blob = blob]
               /\ UNCHANGED downloads
          ELSE IF exports[i].kind = "png"
          THEN /\ exports' = [exports EXCEPT ![i].pc = "done", ![i].blob = blob,
                                             ![i].png = bytes]
               /\ downloads' = Append(downloads, Download(i, "favicon.png", bytes))
          ELSE /\ exports' = [exports EXCEPT ![i].pc = "reading", ![i].blob = blob,
                                             ![i].png = bytes, ![i].icoCalled = TRUE]
               /\ UNCHANGED downloads
    /\ UNCHANGED <<pageVars, sheetVars, icoVars, colorVars, drawVars, randVars,
                   timerVars, urlVars, uiVars>>

\* pngBlob.arrayBuffer() of export i is fulfilled: createIcoFromPng builds the
\* ICO and the handler downloads it.
ArrayBufferRead(i) ==
    /\ exports[i].pc = "reading"
    /\ exports' = [exports EXCEPT ![i].pc = "done"]
    /\ downloads' = Append(downloads,
            Download(i, "favicon.ico",
                     CreateIcoFromPng(ReadBlob(exports[i].png, canvas))))
    /\ UNCHANGED <<pageVars, sheetVars, icoVars, colorVars, drawVars, randVars,
                   timerVars, urlVars, uiVars>>

\* The slider is moved while exports are running: the canvas is redrawn.
RedrawDuringExport(value) ==
    /\ SetCornerRadius(value)
    /\ UNCHANGED <<exports, downloads>>

ExportNext ==
    \/ \E kind \in {"png", "ico"} : StartExport(kind)
    \/ \E i \in DOMAIN exports : \E blob \in {"blob", "null"} : PngEncoded(i, blob)
    \/ \E i \in DOMAIN exports : ArrayBufferRead(i)
    \/ \E value \in ExportRadii : RedrawDuringExport(value)

ExportSpec == PureInit /\ [][ExportNext]_vars

DownloadsOf(i) == {k \in DOMAIN downloads : downloads[k].export = i}

\* C14: an export whose PNG encoding failed is rejected, never calls
\* createIcoFromPng and never calls downloadBlob.
C14_FailedEncodingDownloadsNothing ==
    \A i \in DOMAIN exports :
        exports[i].blob = "null" =>
            /\ exports[i].pc = "rejected"
            /\ ~exports[i].icoCalled
            /\ DownloadsOf(i) = {}

\* An ICO export and a PNG export both failed to encode, and nothing was
\* downloaded.
C14_Witness ==
    /\ Len(exports) = 2
    /\ exports[1].kind = "ico" /\ exports[1].blob = "null"
    /\ exports[2].kind = "png" /\ exports[2].blob = "null"
    /\ downloads = <<>>

\* C19: the ICO an export downloads is the 22-byte header followed by the PNG
\* bytes of that export's own canvasToPngBlob step, which encode the canvas as
\* it was when that export called toBlob, whatever was drawn or exported in
\* between.
C19_IcoWrapsOwnPng ==
    \A k \in DOMAIN downloads :
        downloads[k].filename = "favicon.ico" =>
            LET export == exports[downloads[k].export]
            IN /\ export.kind = "ico"
               /\ export.png = PngOf(export.snapshot)
               /\ Len(downloads[k].bytes) = 22 + Len(export.png)
               /\ SubSeq(downloads[k].bytes, 23, Len(downloads[k].bytes)) = export.png

\* Two ICO exports started on different canvases; the first one finished last,
\* after the canvas was redrawn, and its payload is not the present canvas.
C19_Witness ==
    /\ Len(downloads) = 2
    /\ downloads[1].export = 2 /\ downloads[2].export = 1
    /\ downloads[1].filename = "favicon.ico" /\ downloads[2].filename = "favicon.ico"
    /\ exports[1].snapshot # exports[2].snapshot
    /\ exports[1].snapshot # canvas
    /\ SubSeq(downloads[2].bytes, 23, Len(downloads[2].bytes)) # PngOf(canvas)

(***************************************************************************)
(* The font URL form: fontInput, derivedConfig, handleApplyFont            *)
(***************************************************************************)
\* The characters of the family parameter as URLSearchParams.get returns it, and
\* of the path segment after "/specimen/".
FamilyChars == {"x", "+", ":", "%", "2", "0"}
SegmentChars == {"x", "+", "%", "2", "0"}
FamilyTexts == UNION {[1..n -> FamilyChars] : n \in 0..MaxFamilyLen}
SegmentTexts == UNION {[1..n -> SegmentChars] : n \in 0..MaxFamilyLen}

\* The two Google hosts, an unrelated host, and two hosts of another domain
\* whose names contain a Google host name.
Hosts ==
    {GoogleApisHost, GoogleFontsHost, <<"example", ".", "com">>,
     GoogleApisHost \o <<".", "evil", ".", "example">>,
     GoogleFontsHost \o <<".", "evil", ".", "example">>}

Paths ==
    {<<"/">>, <<"/", "x">>} \cup
    {GOOGLE_SPECIMEN_PREFIX \o segment \o rest :
        segment \in SegmentTexts, rest \in {<<>>, <<"/", "about">>}}

\* Texts that are blank or not a URL, CSS URLs with and without a family
\* parameter, and URLs with a path only.
UrlInputs ==
    {TextInput(text) : text \in {<<>>, <<" ">>, <<"x">>, <<" ", "x", " ">>}}
    \cup {UrlInput(host, <<"/", "css2">>, family) :
            host \in Hosts, family \in {NoFamily} \cup {Family(t) : t \in FamilyTexts}}
    \cup {UrlInput(host, path, NoFamily) : host \in Hosts, path \in Paths}

\* One text typed into the font URL input per behaviour: setFontInput has stored
\* it and the render that recomputes derivedConfig is due.
UrlInit ==
    /\ PageInit /\ fontsApi /\ SheetInit /\ IcoInit /\ ColorIdle
    /\ RandIdle /\ ExportInit /\ TimerInit /\ UiIdle
    /\ fontInput \in UrlInputs
    /\ derivedConfig = DEFAULT_FONT_CONFIG
    /\ urlFontConfig = DEFAULT_FONT_CONFIG
    /\ urlFontStatus = "loading"
    /\ urlPc = "typed"

UrlFrame ==
    UNCHANGED <<pageVars, sheetVars, icoVars, colorVars, drawVars, randVars,
                exportVars, timerVars, uiVars>>

\* The render after setFontInput: useMemo(() => deriveFontConfig(fontInput)).
\* An exception leaving deriveFontConfig would fail the render.
DeriveConfig ==
    /\ urlPc = "typed"
    /\ LET r == DeriveFontConfig(fontInput)
       IN /\ derivedConfig' = r.value
          /\ urlPc' = IF r.threw THEN "crashed" ELSE "derived"
    /\ UNCHANGED <<fontInput, urlFontConfig, urlFontStatus>>
    /\ UrlFrame

\* handleApplyFont: nothing without a derived descriptor; otherwise
\* setFontConfig(derivedConfig), and the fontConfig effect sets fontStatus
\* "loading" and starts document.fonts.load.
ApplyFont ==
    /\ urlPc = "derived"
    /\ urlPc' = "applied"
    /\ IF derivedConfig.isNull
       THEN UNCHANGED <<urlFontConfig, urlFontStatus>>
       ELSE /\ urlFontConfig' = derivedConfig
            /\ urlFontStatus' = "loading"
    /\ UNCHANGED <<fontInput, derivedConfig>>
    /\ UrlFrame

\* document.fonts.load of the active effect run resolves: setFontStatus("ready").
UrlFontLoaded ==
    /\ urlFontStatus = "loading"
    /\ urlFontStatus' = "ready"
    /\ UNCHANGED <<fontInput, derivedConfig, urlFontConfig, urlPc>>
    /\ UrlFrame

\* document.fonts.load rejects or the link fires its error event: handleError.
UrlFontFailed ==
    /\ urlFontStatus = "loading"
    /\ urlFontStatus' = "error"
    /\ UNCHANGED <<fontInput, derivedConfig, urlFontConfig, urlPc>>
    /\ UrlFrame

UrlNext == DeriveConfig \/ ApplyFont \/ UrlFontLoaded \/ UrlFontFailed

UrlSpec == UrlInit /\ [][UrlNext]_vars

Derived == urlPc \in {"derived", "applied"}

\* C17: every descriptor deriveFontConfig returns has a fontFamily that is not
\* empty and not blank.
C17_FamilyNotEmpty ==
    (Derived /\ ~derivedConfig.isNull) =>
        /\ derivedConfig.fontFamily # <<>>
        /\ Trim(derivedConfig.fontFamily) # <<>>

\* The text needs a URL parser to become a URL with a Google host.
IsGoogleHost(hostname) == hostname \in {GoogleApisHost, GoogleFontsHost}

\* C18: deriveFontConfig never throws; a blank text, a text that is not a URL,
\* a URL of another host and a family name that cannot be percent-decoded give
\* null; and applying a null result leaves fontConfig and fontStatus as they
\* were.
C18_NullInsteadOfThrow ==
    /\ urlPc # "crashed"
    /\ Derived =>
          /\ fontInput.kind = "text" => derivedConfig.isNull
          /\ (fontInput.kind = "url" /\ ~IsGoogleHost(fontInput.hostname)) =>
                derivedConfig.isNull
          /\ (fontInput.kind = "url" /\ fontInput.family.present
                /\ ~NormalizeFontName(BeforeFirst(fontInput.family.text, ":")).ok) =>
                derivedConfig.isNull
    /\ (urlPc = "applied" /\ derivedConfig.isNull) =>
          /\ urlFontConfig = DEFAULT_FONT_CONFIG
          /\ urlFontStatus \in {"loading", "ready", "error"}


(***************************************************************************)
(* The randomize button (src/app/page.tsx): randomizeOnce and the press-   *)
(* and-hold timers.  A timer id is a positive integer, 0 stands for the    *)
(* null of the two refs; ids are handed out in increasing order.           *)
(***************************************************************************)
MaxTimerIds == 4

\* value.toString(16).padStart(6, "0")
PadStart(str, length, fill) ==
    IF Len(str) >= length THEN str
    ELSE [i \in 1..(length - Len(str)) |-> fill] \o str

\* randomHexColor for the value Math.floor(Math.random() * 0xffffff).
RandomHexColor(value) == <<"#">> \o PadStart(ToString16(value), 6, "0")

\* The values the model lets Math.floor(Math.random() * 0xffffff) take:
\* 0x000000 and 0x00ff00.
RandomColorValues == {0, 65280}

\* String.prototype.toLowerCase on the alphabet of the colours.
LowerOf ==
    [c \in {UpperDigits[k] : k \in 11..16} |->
        LowerDigits[CHOOSE k \in 11..16 : UpperDigits[k] = c]]

ToLowerCase(str) ==
    [i \in 1..Len(str) |-> IF str[i] \in DOMAIN LowerOf THEN LowerOf[str[i]] ELSE str[i]]

\* x ** 2.4, exact for the base 1 (a channel of 255), the only base the
\* colours of RandomColorValues reach.
Pow24(x) == IF StrictEq(x, Num(1)) THEN Num(1) ELSE NaN

ToLinear(value) ==
    IF Ge(Rat(3928, 100000), value) THEN Div(value, Rat(1292, 100))
    ELSE Pow24(Div(Add(value, Rat(55, 1000)), Rat(1055, 1000)))

GetLuminance(hex) ==
    LET parsed == IF Len(hex) > 0 /\ hex[1] = "#" THEN Tail(hex) ELSE hex
        r == Div(ParseInt16(SubSeq(parsed, 1, 2)), Num(255))
        g == Div(ParseInt16(SubSeq(parsed, 3, 4)), Num(255))
        b == Div(ParseInt16(SubSeq(parsed, 5, 6)), Num(255))
    IN Add(Add(Mul(Rat(2126, 10000), ToLinear(r)), Mul(Rat(7152, 10000), ToLinear(g))),
           Mul(Rat(722, 10000), ToLinear(b)))

\* The colours randomHexColor yields in the model, and getLuminance
\* tabulated over them.
RandomColors == {RandomHexColor(v) : v \in RandomColorValues}

LuminanceOf == [hex \in RandomColors |-> GetLuminance(hex)]

\* The foreground randomizeOnce chooses for a luminance.
ForegroundFor(luminance) ==
    IF Lt(Rat(6, 10), luminance) THEN <<"#", "0", "f", "1", "7", "2", "a">>
    ELSE IF Lt(luminance, Rat(2, 10)) THEN <<"#", "f", "a", "f", "a", "f", "a">>
    ELSE <<"#", "f", "f", "f", "f", "f", "f">>

\* The updater randomizeOnce hands to setBgColor: draws[1] is the colour
\* drawn before the call, draws[i + 1] the i-th redraw of the loop.  The
\* result holds the colour returned and the number of draws consumed.
RECURSIVE NextBg(_, _, _)
NextBg(previous, draws, safety) ==
    IF ToLowerCase(draws[safety + 1]) = ToLowerCase(previous) /\ safety < 5
    THEN IF safety + 2 > Len(draws) THEN [bg |-> draws[safety + 1], used |-> Len(draws) + 1]
         ELSE NextBg(previous, draws, safety + 1)
    ELSE [bg |-> draws[safety + 1], used |-> safety + 1]

\* The numbers of colours one randomizeOnce draws that the model covers:
\* no redraw, one redraw, and the five redraws that exhaust safety.
DrawCounts == {1, 2, 6}

\* The sequences of random colours the updater can be handed; Consumes
\* keeps those that one call with the given previous colour reads to the end.
RandomDraws ==
    UNION {[1..n -> RandomColors] : n \in DrawCounts}

Consumes(previous, draws) == NextBg(previous, draws, 0).used = Len(draws)

\* nextChar: a result of randomChar for the chosen font's validator.
RandomizeChars == {70, 12354}

\* A radius that is not scaled down to half the slider's unit.
NextRadiusUnscaled(random) == Div(MathRound(Mul(random, Num(100))), Num(100))

\* nextRadius = Math.round(Math.random() * 50) / 100.
NextRadius(random) == Div(MathRound(Mul(random, Num(50))), Num(100))

\* The values of Math.random() for the radius: the ends of its range.
RadiusDraws == {Num(0), Rat(99, 100)}

\* randomizeOnce with its random draws as parameters, and the commit that
\* follows it.  React runs the updater of setBgColor at once (eager) only
\* when the component has no update queued, that is when setSelectedFontId
\* and setCharInput left the state as it was; else it runs it while
\* rendering, after getLuminance has read resolvedBg.
RandomizeOnce(font, char, draws, random, eager) ==
    /\ font # selectedFontId => Len(effects) < MaxEffects
    /\ eager => (font = selectedFontId /\ <<char>> = charInput)
    /\ selectedFontId' = font
    /\ IF font = selectedFontId
       THEN UNCHANGED <<fontConfig, fontStatus, previewFontFamily, effects, loads,
                        loadCache, linkState, fontsApi, lastSettled>>
       ELSE /\ fontConfig' = font
            /\ LET st == RunLoadEffect(PageState, font)
               IN /\ SetPageState(st)
                  /\ previewFontFamily' =
                         PreviewFamily(font, st.fontStatus, previewFontFamily)
    /\ charInput' = <<char>>
    /\ LET nextBg == NextBg(bgColor, draws, 0).bg
           resolvedBg == IF eager THEN nextBg ELSE draws[1]
       IN /\ bgColor' = nextBg
          /\ fgColor' = ForegroundFor(LuminanceOf[resolvedBg])
    /\ cornerRadius' = NextRadius(random)
    /\ DrawEffect

RandomizeWith(fonts, chars, randoms) ==
    \E draws \in RandomDraws :
        /\ Consumes(bgColor, draws)
        /\ \E font \in fonts, char \in chars, random \in randoms, eager \in BOOLEAN :
               RandomizeOnce(font, char, draws, random, eager)

RandomizeFrom(randoms) == RandomizeWith(Fonts, RandomizeChars, randoms)

Randomize == RandomizeFrom(RadiusDraws)

TimerState ==
    [timeoutRef |-> randomizeTimeoutRef, intervalRef |-> randomizeIntervalRef,
     timeouts |-> timeouts, intervals |-> intervals]

SetTimerState(st) ==
    /\ randomizeTimeoutRef' = st.timeoutRef
    /\ randomizeIntervalRef' = st.intervalRef
    /\ timeouts' = st.timeouts
    /\ intervals' = st.intervals

\* window.clearTimeout / window.clearInterval: both remove the id from the
\* window's one list of active timers.
ClearTimer(st, id) ==
    [st EXCEPT !.timeouts = @ \ {id}, !.intervals = @ \ {id}]

ClearTimeoutOnly(st) ==
    IF st.timeoutRef # 0
    THEN [ClearTimer(st, st.timeoutRef) EXCEPT !.timeoutRef = 0]
    ELSE st

ClearRandomizeTimers(st) ==
    LET afterTimeout ==
            IF st.timeoutRef # 0
            THEN [ClearTimer(st, st.timeoutRef) EXCEPT !.timeoutRef = 0]
            ELSE st
    IN IF afterTimeout.intervalRef # 0
       THEN [ClearTimer(afterTimeout, afterTimeout.intervalRef) EXCEPT !.intervalRef = 0]
       ELSE afterTimeout

TimerOthers ==
    UNCHANGED <<sheetVars, icoVars, colorVars, randVars, exportVars, urlVars, uiVars>>

\* The handlers and timer callbacks of the button; `randomize` is the
\* randomizeOnce step they make.
ClickHandler(randomize) ==
    /\ mounted
    /\ SetTimerState(ClearRandomizeTimers(TimerState))
    /\ randomize
    /\ UNCHANGED <<nextTimerId, lastPointer, mounted>>

PointerDownHandler ==
    /\ mounted
    /\ nextTimerId <= MaxTimerIds
    /\ LET st == ClearRandomizeTimers(TimerState)
       IN SetTimerState([st EXCEPT !.timeouts = @ \cup {nextTimerId},
                                   !.timeoutRef = nextTimerId])
    /\ nextTimerId' = nextTimerId + 1
    /\ lastPointer' = "down"
    /\ UNCHANGED <<mounted, pageVars, drawVars>>

PointerEndEvents == {"up", "leave", "cancel"}

PointerEndHandler(event) ==
    /\ mounted
    /\ SetTimerState(ClearRandomizeTimers(TimerState))
    /\ lastPointer' = event
    /\ UNCHANGED <<nextTimerId, mounted, pageVars, drawVars>>

\* The callback of the 350 ms timeout.
TimeoutCallback(id, randomize) ==
    /\ id \in timeouts
    /\ nextTimerId <= MaxTimerIds
    /\ randomize
    /\ timeouts' = timeouts \ {id}
    /\ intervals' = intervals \cup {nextTimerId}
    /\ randomizeIntervalRef' = nextTimerId
    /\ nextTimerId' = nextTimerId + 1
    /\ UNCHANGED <<randomizeTimeoutRef, lastPointer, mounted>>

\* One tick of the 200 ms interval.
IntervalCallback(id, randomize) ==
    /\ id \in intervals
    /\ randomize
    /\ UNCHANGED timerVars

HandleRandomizeClick == ClickHandler(Randomize) /\ TimerOthers

HandleRandomizePointerDown == PointerDownHandler /\ TimerOthers

HandleRandomizePointerEnd(event) == PointerEndHandler(event) /\ TimerOthers

RandomizeTimeout(id) == TimeoutCallback(id, Randomize) /\ TimerOthers

RandomizeInterval(id) == IntervalCallback(id, Randomize) /\ TimerOthers

\* The cleanup of the effect that owns the timers.
Unmount ==
    /\ mounted
    /\ SetTimerState(ClearRandomizeTimers(TimerState))
    /\ mounted' = FALSE
    /\ UNCHANGED <<nextTimerId, lastPointer, pageVars, drawVars>>
    /\ TimerOthers

TimerNext ==
    \/ HandleRandomizeClick
    \/ HandleRandomizePointerDown
    \/ \E event \in PointerEndEvents : HandleRandomizePointerEnd(event)
    \/ \E id \in timeouts : RandomizeTimeout(id)
    \/ \E id \in intervals : RandomizeInterval(id)
    \/ Unmount

TimerSpec == PureInit /\ [][TimerNext]_vars

\* C16: after a pointer up, leave or cancel on the randomize button, and
\* after the unmount of the page, no randomize timeout and no randomize
\* interval is scheduled; at every moment at most one timeout and at most
\* one interval are scheduled.
C16_TimersCleared ==
    /\ Cardinality(timeouts) <= 1
    /\ Cardinality(intervals) <= 1
    /\ (lastPointer \in PointerEndEvents \/ ~mounted) =>
           (timeouts = {} /\ intervals = {})

\* The hold ran into its interval (ids 1 and 2 were handed out) and the
\* pointer was then released.
C16_Witness ==
    /\ lastPointer = "up"
    /\ nextTimerId = 3
    /\ randomizeIntervalRef = 0
    /\ intervals = {}

(***************************************************************************)
(* normalizeHsva (font-loader.ts 261-271)                                  *)
(***************************************************************************)
\* a ?? b: b when a is undefined (or null), else a; NaN is not nullish.
Coalesce(a, b) == IF a = Undefined THEN b ELSE a

NormalizeHsva(value, fallback) ==
    [h |-> Clamp(Coalesce(Coalesce(value.h, fallback.h), Num(0)), Num(0), Num(360)),
     s |-> Clamp(Coalesce(Coalesce(value.s, fallback.s), Num(0)), Num(0), Num(1)),
     v |-> Clamp(Coalesce(Coalesce(value.v, fallback.v), Num(0)), Num(0), Num(1)),
     a |-> Clamp(Coalesce(Coalesce(value.a, fallback.a), Num(1)), Num(0), Num(1))]

\* The fields of a partial update: absent, or a number.
HuePartials == {Undefined, Num(-60), Num(0), Num(120), Rat(719, 2), Num(360), Num(400)}
UnitPartials == {Undefined, Num(-1), Num(0), Rat(1, 2), Num(1), Rat(3, 2)}
PartialHsvas == [h : HuePartials, s : UnitPartials, v : UnitPartials, a : UnitPartials]

\* The fallbacks: colours within the ranges of an HSVA colour.
FallbackHsvas ==
    [h : {Num(0), Num(240)}, s : {Num(0), Num(1)}, v : {Rat(1, 4)}, a : {Num(0), Num(1)}]

\* One call of normalizeHsva per behaviour.
NormalizeCall(value, fallback) ==
    /\ normResult = Undefined
    /\ normValue' = value
    /\ normFallback' = fallback
    /\ normResult' = NormalizeHsva(value, fallback)
    /\ UNCHANGED <<pageVars, sheetVars, icoVars, colorVars, drawVars, randVars,
                   exportVars, timerVars, urlVars>>
    /\ UNCHANGED <<batchVars, clockVars, loaderVars, reactions, syncVars>>

NormNext == \E value \in PartialHsvas, fallback \in FallbackHsvas : NormalizeCall(value, fallback)

NormSpec == PureInit /\ [][NormNext]_vars

InUnit(x) == Ge(x, Num(0)) /\ Ge(Num(1), x)

\* The field normalizeHsva is to take: the update's when present, else the fallback's.
Merged(field) == IF normValue[field] # Undefined THEN normValue[field] ELSE normFallback[field]

\* C21: the colour normalizeHsva returns has h in [0, 360) and s, v, a in
\* [0, 1], each field being the clamped field of the update when the update
\* has it and of the fallback otherwise.
C21_NormalizedInRange ==
    normResult # Undefined =>
        /\ Ge(normResult.h, Num(0)) /\ Lt(normResult.h, Num(360))
        /\ InUnit(normResult.s) /\ InUnit(normResult.v) /\ InUnit(normResult.a)
        /\ normResult.h = Clamp(Merged("h"), Num(0), Num(360))
        /\ \A field \in {"s", "v", "a"} :
               normResult[field] = Clamp(Merged(field), Num(0), Num(1))

(***************************************************************************)
(* Home: the appearance state under the radius slider and randomizeOnce    *)
(***************************************************************************)
\* The values the range input (min 0, max 0.5, step 0.01) reports here.
SliderStops == {Num(0), Rat(1, 100), Rat(37, 100), Rat(1, 2)}

\* The values of Math.random() for the radius: 0.01 rounds up to one step,
\* 0.5 to 25 steps, 0.99 to 50 steps.
MoreRadiusDraws == {Num(0), Rat(1, 100), Rat(1, 2), Rat(99, 100)}

\* One randomize step (a click on the button).
RandomizeStep ==
    /\ RandomizeFrom(MoreRadiusDraws)
    /\ UNCHANGED <<sheetVars, icoVars, colorVars, randVars, exportVars, timerVars,
                   urlVars, uiVars>>

AppearanceNext ==
    \/ \E value \in SliderStops : SetCornerRadius(value)
    \/ RandomizeStep

AppearanceSpec == PureInit /\ [][AppearanceNext]_vars

\* C22: cornerRadius is a number in [0, 0.5].
C22_RadiusInRange ==
    /\ Ge(cornerRadius, Num(0))
    /\ Ge(Rat(1, 2), cornerRadius)

\* A randomize step (the character is one only randomizeOnce sets) drew the
\* largest radius.
C22_Witness ==
    /\ charInput = <<12354>>
    /\ cornerRadius = Rat(1, 2)

\* C28: a step that changes the background or the foreground leaves the
\* foreground chosen for the luminance of the new background.
C28_ForegroundFromAppliedBackground ==
    [][(bgColor' # bgColor \/ fgColor' # fgColor) =>
           fgColor' = ForegroundFor(GetLuminance(bgColor'))]_vars

(***************************************************************************)
(* Home: randomizeOnce call by call, and the render of its updates         *)
(***************************************************************************)
\* The randomize steps of one behaviour.
MaxRandomizations == 2

\* A render between two setState calls of a running handler.
RenderAtOnce(pc) == TRUE

\* randomizeOnce makes its five setState calls in one synchronous run, from
\* an event handler or a timer callback: React renders the queued updates
\* after the handler has returned.
CanRender(pc) == pc = 0

BatchFrame ==
    UNCHANGED <<sheetVars, icoVars, colorVars, randVars, exportVars, timerVars,
                urlVars, normVars, clockVars, loaderVars, reactions, syncVars>>

\* setSelectedFontId(randomFont.id)
QueueSelectedFontId(font) ==
    /\ handlerPc = 0
    /\ updateQueue.fields = {}
    /\ randomizeCount < MaxRandomizations
    /\ font # selectedFontId => Len(effects) < MaxEffects
    /\ randomizeCount' = randomizeCount + 1
    /\ handlerPc' = 1
    /\ updateQueue' = [updateQueue EXCEPT !.fields = @ \cup {"selectedFontId"},
                                          !.font = font]
    /\ UNCHANGED <<renderedStamp, pageVars, drawVars>>
    /\ BatchFrame

\* setCharInput(nextChar)
QueueCharInput(char) ==
    /\ handlerPc = 1
    /\ handlerPc' = 2
    /\ updateQueue' = [updateQueue EXCEPT !.fields = @ \cup {"charInput"}, !.char = char]
    /\ UNCHANGED <<renderedStamp, randomizeCount, pageVars, drawVars>>
    /\ BatchFrame

\* resolvedBg = randomHexColor(); setBgColor(updater)
QueueBgColor(draws) ==
    /\ handlerPc = 2
    /\ Consumes(bgColor, draws)
    /\ handlerPc' = 3
    /\ updateQueue' = [updateQueue EXCEPT !.fields = @ \cup {"bgColor"}, !.draws = draws]
    /\ UNCHANGED <<renderedStamp, randomizeCount, pageVars, drawVars>>
    /\ BatchFrame

\* setFgColor(...) for getLuminance(resolvedBg); the updater has run by now
\* (eager) only when nothing was queued before it.
QueueFgColor(eager) ==
    /\ handlerPc = 3
    /\ eager => (updateQueue.font = selectedFontId /\ <<updateQueue.char>> = charInput)
    /\ handlerPc' = 4
    /\ LET resolvedBg == IF eager THEN NextBg(bgColor, updateQueue.draws, 0).bg
                         ELSE updateQueue.draws[1]
       IN updateQueue' = [updateQueue EXCEPT !.fields = @ \cup {"fgColor"},
                                             !.fg = ForegroundFor(LuminanceOf[resolvedBg])]
    /\ UNCHANGED <<renderedStamp, randomizeCount, pageVars, drawVars>>
    /\ BatchFrame

\* setCornerRadius(nextRadius); randomizeOnce returns.
QueueCornerRadius(random) ==
    /\ handlerPc = 4
    /\ handlerPc' = 0
    /\ updateQueue' = [updateQueue EXCEPT !.fields = @ \cup {"cornerRadius"},
                                          !.random = random]
    /\ UNCHANGED <<renderedStamp, randomizeCount, pageVars, drawVars>>
    /\ BatchFrame

\* One render and commit of Home: the queued updates become the state, the
\* effects of the commit run (the load effect for a new font, the draw effect).
Render ==
    /\ updateQueue.fields # {}
    /\ CanRender(handlerPc)
    /\ LET q == updateQueue
           font == IF "selectedFontId" \in q.fields THEN q.font ELSE selectedFontId
       IN /\ selectedFontId' = font
          /\ IF font = selectedFontId
             THEN UNCHANGED <<fontConfig, fontStatus, previewFontFamily, effects, loads,
                              loadCache, linkState, fontsApi, lastSettled>>
             ELSE /\ fontConfig' = font
                  /\ LET st == RunLoadEffect(PageState, font)
                     IN /\ SetPageState(st)
                        /\ previewFontFamily' =
                               PreviewFamily(font, st.fontStatus, previewFontFamily)
          /\ charInput' = IF "charInput" \in q.fields THEN <<q.char>> ELSE charInput
          /\ bgColor' = IF "bgColor" \in q.fields THEN NextBg(bgColor, q.draws, 0).bg
                        ELSE bgColor
          /\ fgColor' = IF "fgColor" \in q.fields THEN q.fg ELSE fgColor
          /\ cornerRadius' = IF "cornerRadius" \in q.fields THEN NextRadius(q.random)
                             ELSE cornerRadius
          /\ renderedStamp' = [field \in RandomizedFields |->
                                  IF field \in q.fields THEN randomizeCount
                                  ELSE renderedStamp[field]]
    /\ DrawEffect
    /\ updateQueue' = [updateQueue EXCEPT !.fields = {}]
    /\ UNCHANGED <<handlerPc, randomizeCount>>
    /\ BatchFrame

BatchNext ==
    \/ \E font \in Fonts : QueueSelectedFontId(font)
    \/ \E char \in RandomizeChars : QueueCharInput(char)
    \/ \E draws \in RandomDraws : QueueBgColor(draws)
    \/ \E eager \in BOOLEAN : QueueFgColor(eager)
    \/ \E random \in RadiusDraws : QueueCornerRadius(random)
    \/ Render

BatchSpec == PureInit /\ [][BatchNext]_vars

\* C23: the five values a render (and the canvas draw of its commit) shows
\* all come from the same randomize step.
C23_RandomizeIsAtomic ==
    \A field \in RandomizedFields :
        renderedStamp[field] = renderedStamp["selectedFontId"]

\* The second randomize step has been rendered: its font, character and
\* radius are on the page together.
C23_Witness ==
    /\ renderedStamp["cornerRadius"] = 2
    /\ renderedStamp["selectedFontId"] = 2
    /\ updateQueue.fields = {}
    /\ handlerPc = 0

(***************************************************************************)
(* The Randomize button in time: press, hold and release                   *)
(***************************************************************************)
\* The delay of the timeout and the period of the interval, in milliseconds.
HoldDelayMs == 350
RepeatMs == 200

\* Time advances in steps that divide both.
TickMs == Gcd(HoldDelayMs, RepeatMs)

\* A press is followed for MaxTime milliseconds.
MaxTime == 600

\* A timer that is due as soon as it is set.
ScheduleNow(delay) == 0

\* window.setTimeout(f, delay) / window.setInterval(f, delay): the time
\* until the (next) call of f.
ScheduleAfter(delay) == delay

\* randomizeOnce as the timed model draws it: the selected font, "F", the
\* radius 0 and any of the colours.
HoldRandomize == RandomizeWith({selectedFontId}, {70}, {Num(0)})

HoldFrame ==
    UNCHANGED <<sheetVars, icoVars, colorVars, randVars, exportVars, urlVars,
                normVars, batchVars, loaderVars, reactions, syncVars>>

\* The timers still scheduled keep their time; timer `new` (0 = none) was
\* set with `delay`.
Reschedule(new, delay) ==
    remaining' = [id \in timeouts' \cup intervals' |->
                     IF id = new THEN ScheduleAfter(delay) ELSE remaining[id]]

HoldPointerDown ==
    /\ ~clickPending
    /\ PointerDownHandler
    /\ Reschedule(nextTimerId, HoldDelayMs)
    /\ sincePress' = 0
    /\ pressed' = TRUE
    /\ release' = "none"
    /\ timerFires' = 0 /\ lastFireAfter' = 0 /\ clickFires' = 0
    /\ lastEvent' = "down"
    /\ UNCHANGED clickPending
    /\ HoldFrame

\* Pointer up, leave or cancel; the browser dispatches a click after the
\* up of a pointer that went down on the button.
HoldPointerEnd(event) ==
    /\ ~clickPending
    /\ PointerEndHandler(event)
    /\ Reschedule(0, 0)
    /\ pressed' = (pressed /\ event = "leave")
    /\ clickPending' = (pressed /\ event = "up")
    /\ release' = IF pressed /\ event = "up"
                  THEN (IF sincePress < HoldDelayMs THEN "early" ELSE "late")
                  ELSE release
    /\ lastEvent' = event
    /\ UNCHANGED <<sincePress, timerFires, lastFireAfter, clickFires>>
    /\ HoldFrame

\* The click of a pointer up.
HoldClick ==
    /\ clickPending
    /\ ClickHandler(HoldRandomize)
    /\ Reschedule(0, 0)
    /\ clickPending' = FALSE
    /\ clickFires' = clickFires + 1
    /\ lastEvent' = "click"
    /\ UNCHANGED <<sincePress, pressed, release, timerFires, lastFireAfter>>
    /\ HoldFrame

\* A click made with the keyboard (Enter or Space on the focused button).
KeyboardClick ==
    /\ ~clickPending
    /\ ClickHandler(HoldRandomize)
    /\ Reschedule(0, 0)
    /\ lastEvent' = "key"
    /\ UNCHANGED <<sincePress, pressed, clickPending, release, timerFires,
                   lastFireAfter, clickFires>>
    /\ HoldFrame

HoldTimeout(id) ==
    /\ ~clickPending
    /\ id \in DOMAIN remaining /\ remaining[id] = 0
    /\ TimeoutCallback(id, HoldRandomize)
    /\ Reschedule(nextTimerId, RepeatMs)
    /\ timerFires' = timerFires + 1
    /\ lastFireAfter' = sincePress
    /\ lastEvent' = "timeout"
    /\ UNCHANGED <<sincePress, pressed, clickPending, release, clickFires>>
    /\ HoldFrame

HoldInterval(id) ==
    /\ ~clickPending
    /\ id \in DOMAIN remaining /\ remaining[id] = 0
    /\ IntervalCallback(id, HoldRandomize)
    /\ Reschedule(id, RepeatMs)
    /\ timerFires' = timerFires + 1
    /\ lastFireAfter' = sincePress
    /\ lastEvent' = "interval"
    /\ UNCHANGED <<sincePress, pressed, clickPending, release, clickFires>>
    /\ HoldFrame

\* Time passes; a timer that is due runs before time passes further.
Tick ==
    /\ ~clickPending
    /\ sincePress < MaxTime
    /\ \A id \in DOMAIN remaining : remaining[id] > 0
    /\ sincePress' = sincePress + TickMs
    /\ remaining' = [id \in DOMAIN remaining |-> remaining[id] - TickMs]
    /\ UNCHANGED <<pressed, clickPending, release, timerFires, lastFireAfter,
                   clickFires, lastEvent>>
    /\ UNCHANGED <<timerVars, pageVars, drawVars>>
    /\ HoldFrame

HoldNext ==
    \/ HoldPointerDown
    \/ \E event \in PointerEndEvents : HoldPointerEnd(event)
    \/ HoldClick
    \/ KeyboardClick
    \/ \E id \in timeouts : HoldTimeout(id)
    \/ \E id \in intervals : HoldInterval(id)
    \/ Tick

HoldSpec == PureInit /\ [][HoldNext]_vars

\* C24: since the last pointer down, the k-th timer-driven randomize happened
\* exactly 350 + 200 (k - 1) ms after it: none before 350 ms, the timeout
\* is due at 350 ms, the interval exists only after the first of them and is
\* due every 200 ms.  After a release before 350 ms no timer-driven
\* randomize has happened and the click has made exactly one; after a click
\* no timer is scheduled.
C24_HoldTiming ==
    /\ timerFires > 0 => lastFireAfter = HoldDelayMs + RepeatMs * (timerFires - 1)
    /\ \A id \in timeouts :
           timerFires = 0 /\ remaining[id] = HoldDelayMs - sincePress
    /\ \A id \in intervals :
           /\ timerFires >= 1
           /\ remaining[id] = HoldDelayMs + RepeatMs * timerFires - sincePress
    /\ release = "early" => (timerFires = 0 /\ clickFires = (IF clickPending THEN 0 ELSE 1))
    /\ clickFires <= 1
    /\ lastEvent \in {"click", "key"} => (timeouts = {} /\ intervals = {})

\* A hold of 550 ms: the timeout and then the interval have each fired once.
C24_Witness ==
    /\ lastPointer = "down"
    /\ timerFires = 2
    /\ lastFireAfter = 550
    /\ sincePress = 550


(***************************************************************************)
(* loadFontFace and clearFontLoadCache: what the cache holds over time     *)
(***************************************************************************)
LoaderFrame ==
    AppFrame /\ UNCHANGED <<normVars, batchVars, clockVars, reactions, syncVars>>

\* A loadFontFace call for the key of `font`, made by the load effect of Home
\* after the font changed; the history records what the call found and returned.
CallLoadFontFace(font) ==
    /\ SetSelectedFontId(font)
    /\ lastCall' = [key |-> KeyOf(font),
                    started |-> Len(loads') > Len(loads),
                    returned |-> PromiseStateIn(loads', effects'[Len(effects')].promise),
                    afterClear |-> KeyOf(font) \in cleared,
                    afterResolve |-> KeyOf(font) \in resolvedKeys]
    /\ cleared' = cleared \ {KeyOf(font)}
    /\ UNCHANGED clears
    /\ resolvedKeys' = IF loadCache'[KeyOf(font)] = ResolvedPromise
                          /\ loadCache[KeyOf(font)] = NoEntry
                       THEN resolvedKeys \cup {KeyOf(font)} ELSE resolvedKeys
    /\ LoaderFrame

\* clearFontLoadCache(): loadCache.clear().  Loads in flight are left running.
\* One call per behaviour is followed.
ClearFontLoadCache ==
    /\ ~clears
    /\ clears' = TRUE
    /\ loadCache' = [k \in Fonts |-> NoEntry]
    /\ cleared' = Fonts
    /\ resolvedKeys' = {}
    /\ UNCHANGED <<selectedFontId, fontConfig, fontStatus, previewFontFamily, effects,
                   loads, linkState, fontsApi, lastSettled, lastCall>>
    /\ LoaderFrame

\* The keys of the operations a step settles as resolved.
NewlyResolved ==
    {loads[i].key : i \in {j \in DOMAIN loads :
        loads[j].settled = "pending" /\ loads'[j].settled = "resolved"}}

\* document.fonts.load settles for an operation still pending; for one the link
\* has already rejected, the settlement changes nothing (lines 91-93, 99-101)
\* and is left out here.
LoaderThen(i) ==
    /\ loads[i].settled = "pending"
    /\ FontLoadThen(i)
    /\ resolvedKeys' = resolvedKeys \cup NewlyResolved
    /\ UNCHANGED <<clears, cleared, lastCall>>
    /\ LoaderFrame

LoaderCatch(i) ==
    /\ loads[i].settled = "pending"
    /\ FontLoadCatch(i)
    /\ UNCHANGED loaderVars
    /\ LoaderFrame

LoaderLinkError(font) ==
    /\ OnError(font)
    /\ UNCHANGED loaderVars
    /\ LoaderFrame

LoaderNext ==
    \/ \E font \in Fonts : CallLoadFontFace(font)
    \/ ClearFontLoadCache
    \/ \E i \in DOMAIN loads : LoaderThen(i)
    \/ \E i \in DOMAIN loads : LoaderCatch(i)
    \/ \E font \in Fonts : LoaderLinkError(font)

\* The load event of a link calls nothing in the loader and is left out: a link
\* that finished loading behaves like one that never reports an error.
LoaderSpec == Init /\ [][LoaderNext]_vars

\* The operations a step rejects.
NewlyRejected ==
    {i \in DOMAIN loads : loads[i].settled = "pending" /\ loads'[i].settled = "rejected"}

\* The effect runs that called loadFontFace and were handed the promise of i.
Sharers(i) == {n \in DOMAIN effects : effects[n].promise = LoadPromise(i)}

\* C25: when the load of a key rejects, the key has no entry in loadCache
\* afterwards, every run that shared the promise has seen the rejection (the
\* run still current shows "error"), a loadFontFace call made then would start
\* a new load, and no call is ever handed a promise that has already rejected.
C25_FailedLoadNotCached ==
    [][/\ \A i \in NewlyRejected :
            /\ loadCache'[loads[i].key] = NoEntry
            /\ \A n \in Sharers(i) :
                  /\ effects'[n].done
                  /\ PromiseStateIn(loads', effects'[n].promise) = "rejected"
                  /\ ~effects[n].cancelled => fontStatus' = "error"
            /\ LET st == [effects |-> effects', loads |-> loads',
                          loadCache |-> loadCache', linkState |-> linkState',
                          fontStatus |-> fontStatus', fontsApi |-> fontsApi',
                          lastSettled |-> lastSettled']
                   r == LoadFontFace(st, loads[i].key)
               IN /\ Len(r.st.loads) = Len(loads') + 1
                  /\ r.promise = LoadPromise(Len(loads') + 1)
       /\ lastCall'.returned # "rejected"]_vars

\* A load shared by the two effect runs of the mount has rejected; the next
\* call for its key started a new load.
C25_Witness ==
    /\ Len(loads) >= 2
    /\ loads[1].settled = "rejected"
    /\ Cardinality({n \in DOMAIN effects : effects[n].promise = LoadPromise(1)}) = 2
    /\ lastCall.key = loads[1].key
    /\ lastCall.started

\* C26: a loadFontFace call for a key whose load has resolved, with no
\* clearFontLoadCache since, starts no load and returns a resolved promise; the
\* first call for a key after clearFontLoadCache starts a new load.
C26_CachedUntilCleared ==
    /\ (lastCall.afterResolve /\ ~lastCall.afterClear) =>
            (~lastCall.started /\ lastCall.returned = "resolved")
    /\ lastCall.afterClear => lastCall.started


\* C27: a settled loadFontOnce operation keeps its outcome whatever the link or
\* document.fonts.load does later, a stylesheet error event leaves fontStatus
\* "ready" as it is, and only pending operations have their listener on the link.
C27_SettlesAtMostOnce ==
    [][/\ \A i \in DOMAIN loads :
            loads[i].settled # "pending" => loads'[i].settled = loads[i].settled
       /\ \A i \in DOMAIN loads : loads[i].listening => loads[i].settled = "pending"
       /\ \A i \in DOMAIN loads' : loads'[i].listening => loads'[i].settled = "pending"
       /\ \A font \in Fonts :
            (fontStatus = "ready" /\ linkState[font] = "loading"
                                  /\ linkState'[font] = "error")
                => fontStatus' = "ready"]_vars

\* The operation started at mount resolved and its link, still loading then,
\* reported an error afterwards; another operation was rejected by the error of
\* its link and its document.fonts.load resolved afterwards.
C27_Witness ==
    /\ fontStatus = "ready"
    /\ selectedFontId = 1
    /\ linkState[1] = "error"
    /\ loads[1].settled = "resolved"
    /\ loads[1].fontLoad = "resolved"
    /\ \E j \in DOMAIN loads :
          /\ loads[j].settled = "rejected"
          /\ loads[j].fontLoad = "resolved"


(***************************************************************************)
(* Home: fontStatus over time, with the promise reactions as microtasks    *)
(***************************************************************************)
\* A settlement and its promise reactions are two steps here: the reactions
\* are microtasks of the task that settled the operation, so no other task
\* runs in between and the browser always runs them.
StatusFrame ==
    AppFrame /\ UNCHANGED <<normVars, batchVars, clockVars, loaderVars, syncVars>>

Quiet == reactions = NoReactions

Queue(S, outcome) ==
    reactions' = IF S = {} THEN NoReactions ELSE [ops |-> S, outcome |-> outcome]

\* The runs of the load effect in one behaviour: two at mount and one per
\* font selected afterwards.
MaxStatusRuns == 3

StatusSelect(font) ==
    /\ Quiet
    /\ Len(effects) < MaxStatusRuns
    /\ SetSelectedFontId(font)
    /\ UNCHANGED reactions
    /\ StatusFrame

\* document.fonts.load of operation i settles with `outcome` (lines 90-105).
StatusFontLoad(i, outcome) ==
    /\ Quiet
    /\ loads[i].fontLoad = "pending"
    /\ LET S == IF loads[i].settled = "pending" THEN {i} ELSE {}
       IN /\ SettleOperations(S, outcome, [loads EXCEPT ![i].fontLoad = outcome])
          /\ Queue(S, outcome)
    /\ UNCHANGED <<selectedFontId, fontConfig, fontStatus, previewFontFamily, effects,
                   loadCache, linkState, fontsApi>>
    /\ StatusFrame

\* The error event of the link of `font` (lines 78-85).
StatusLinkError(font) ==
    /\ Quiet
    /\ linkState[font] = "loading"
    /\ linkState' = [linkState EXCEPT ![font] = "error"]
    /\ LET S == {i \in Listeners(font) : loads[i].settled = "pending"}
       IN /\ SettleOperations(S, "rejected", CallOnce(font))
          /\ Queue(S, "rejected")
    /\ UNCHANGED <<selectedFontId, fontConfig, fontStatus, previewFontFamily, effects,
                   loadCache, fontsApi>>
    /\ StatusFrame

\* The microtasks of the last settlement, and the commit they cause.
RunReactions ==
    /\ ~Quiet
    /\ PromiseReactions(reactions.ops, reactions.outcome)
    /\ reactions' = NoReactions
    /\ UNCHANGED <<selectedFontId, fontConfig, loads, linkState, fontsApi, lastSettled>>
    /\ StatusFrame

StatusNext ==
    \/ \E font \in Fonts : StatusSelect(font)
    \/ \E i \in DOMAIN loads, outcome \in {"resolved", "rejected"} :
          StatusFontLoad(i, outcome)
    \/ \E font \in Fonts : StatusLinkError(font)
    \/ RunReactions

\* The browser drains the microtask queue; nothing makes a load settle.  A link
\* that finished loading behaves like one that never reports an error, so the
\* load event is left out.
StatusSpec == Init /\ [][StatusNext]_vars /\ WF_vars(RunReactions)

\* The promise awaited by the current run of the load effect has settled with
\* `outcome`.  A promise settles once, so this ends only when a newer descriptor
\* starts a new run.
CurrentSettled(outcome) == PromiseState(CurrentRun.promise) = outcome

\* C29: once the load of the current descriptor has settled, fontStatus becomes
\* "ready" (resolved) or "error" (rejected) unless a newer descriptor is selected
\* first; "ready" and "error" then stay until the descriptor changes; and
\* fontStatus is "loading" forever only if that load stays pending forever.
C29_StatusLiveness ==
    /\ \A outcome \in {"resolved", "rejected"} :
          CurrentSettled(outcome)
              ~> (~CurrentSettled(outcome) \/ fontStatus = StatusOf(outcome))
    /\ [][(fontStatus \in {"ready", "error"} /\ fontConfig' = fontConfig)
              => fontStatus' = fontStatus]_vars
    /\ <>[](fontStatus = "loading") => <>[](PromiseState(CurrentRun.promise) = "pending")

\* The load awaited by the third run of the load effect, for a font selected
\* while the first load was pending, was rejected and its reactions have run.
C29_Witness ==
    /\ Quiet
    /\ Len(effects) = 3
    /\ CurrentRun.prevPending
    /\ CurrentRun.promise.kind = "load"
    /\ loads[CurrentRun.promise.load].settled = "rejected"
    /\ lastSettled = CurrentRun.promise.load
    /\ fontStatus = "error"


(***************************************************************************)
(* Home and its background ColorPicker: the exchange of the colour         *)
(***************************************************************************)
\* The picker is rendered with key `bg-${bgColor}`, value bgColor and onChange
\* setBgColor; `hsva` is its state.  A commit and the effects it runs are one
\* step; the user acts when the exchange is at rest.  The foreground picker is
\* the same component on fgColor.
MaxSyncRounds == 4

\* Texts typed or pasted into the picker's input.
TypedTexts ==
    {<<"#", "g", "g", "g", "g", "g", "g">>,
     <<"#", "0", "2", "0", "6", "g", "7">>,
     <<"#", "1", "1", "1", "1", "1", "C">>,
     <<"f", "8", "0">>}
\* Positions of the hue slider, and of the pointer in the colour area.
HueStops == {Num(0), Num(120), Num(360)}
AreaStops == {Num(0), Rat(1, 2), Num(1)}
\* Colours randomizeOnce stores.
PageColors == {<<"#", "0", "0", "f", "f", "0", "0">>, <<"#", "f", "f", "f", "f", "f", "f">>}

SyncFrame ==
    /\ UNCHANGED <<charInput, fgColor, cornerRadius>>
    /\ UNCHANGED <<pageVars, sheetVars, icoVars, randVars, exportVars, timerVars,
                   urlVars, normVars, batchVars, clockVars, loaderVars, reactions>>
    /\ DrawEffect
    /\ UNCHANGED <<colorPc, hexIn, rgba, hexOut>>

PickerInit ==
    /\ PageInit /\ fontsApi /\ SheetInit /\ IcoInit
    /\ RandIdle /\ ExportInit /\ TimerInit /\ UrlIdle /\ UiIdle
    /\ colorPc = "idle" /\ hexIn = <<>> /\ rgba = <<>> /\ hexOut = <<>>
    /\ hsva = NormalizeHsva(HexToHsva(bgColor), HexToHsva(bgColor))

\* A setHsva of the user: the commit renders the picker with the new colour
\* and its hsva effect is due.
UserSetHsva(next) ==
    /\ syncPc = "idle"
    /\ hsva' = next
    /\ syncPc' = "report"
    /\ syncRounds' = 0
    /\ UNCHANGED bgColor
    /\ SyncFrame

\* handleInputChange: setHsva(hexToHsva(raw)).
HandleInputChange(raw) == UserSetHsva(HexToHsva(raw))

\* handleHueChange: setHsva((prev) => ({ ...prev, h: nextHue })).
HandleHueChange(nextHue) == UserSetHsva([hsva EXCEPT !.h = nextHue])

\* handleAreaPointer: setHsva((prev) => ({ ...prev, s: x, v: 1 - y })).
HandleAreaPointer(x, y) == UserSetHsva([hsva EXCEPT !.s = x, !.v = Sub(Num(1), y)])

\* randomizeOnce: setBgColor(resolvedBg); the commit changes the picker's key.
PageSetBgColor(color) ==
    /\ syncPc = "idle"
    /\ color # bgColor
    /\ bgColor' = color
    /\ syncPc' = "remount"
    /\ syncRounds' = 0
    /\ UNCHANGED hsva
    /\ SyncFrame

\* onChange = setBgColor: the page stores what the picker reports.
StoreChange(reported) == reported

\* The hsva effect (lines 73-75): onChange(hsvaToHex(hsva)).  A value equal to
\* bgColor changes nothing; another one is stored and changes the picker's key.
ReportChange ==
    /\ syncPc = "report"
    /\ bgColor' = StoreChange(HsvaToHex(hsva))
    /\ syncPc' = IF bgColor' = bgColor THEN "idle" ELSE "remount"
    /\ UNCHANGED <<hsva, syncRounds>>
    /\ SyncFrame

\* The picker mounts on its new key: useState(hexToHsva(value)).
Remount ==
    /\ syncPc = "remount"
    /\ syncRounds < MaxSyncRounds
    /\ hsva' = HexToHsva(bgColor)
    /\ syncPc' = "mounted"
    /\ syncRounds' = syncRounds + 1
    /\ UNCHANGED bgColor
    /\ SyncFrame

\* The effects of the mount: the value effect (lines 69-71) queues
\* setHsva(normalizeHsva(prev, hexToHsva(value))), the hsva effect reports
\* hsvaToHex(hsva).  A report that differs from bgColor replaces the picker
\* again, and the queued update with it; otherwise the normalised colour is
\* committed as a new object and the hsva effect is due again.
MountEffects ==
    /\ syncPc = "mounted"
    /\ bgColor' = StoreChange(HsvaToHex(hsva))
    /\ IF bgColor' = bgColor
       THEN /\ hsva' = NormalizeHsva(hsva, HexToHsva(bgColor))
            /\ syncPc' = "report"
       ELSE /\ hsva' = hsva
            /\ syncPc' = "remount"
    /\ UNCHANGED syncRounds
    /\ SyncFrame

PickerNext ==
    \/ \E raw \in TypedTexts : HandleInputChange(raw)
    \/ \E nextHue \in HueStops : HandleHueChange(nextHue)
    \/ \E x \in AreaStops, y \in AreaStops : HandleAreaPointer(x, y)
    \/ \E color \in PageColors : PageSetBgColor(color)
    \/ ReportChange
    \/ Remount
    \/ MountEffects

PickerSpec == PickerInit /\ [][PickerNext]_vars

\* hsvaToHex(hexToHsva(y)) for the colour the page holds.
Resynced(y) == HsvaToHex(HexToHsva(y))

\* C30: every colour the picker reports to the page is a fixed point of
\* hsvaToHex after hexToHsva, so the picker mounted on it reports the same
\* colour and the exchange ends with the first remount.
C30_ReportsAreFixedPoints ==
    /\ syncPc = "remount" => Resynced(bgColor) = bgColor
    /\ syncRounds <= 1

\* The exchange ends all the same: the picker is replaced at most twice after an
\* edit, which is below MaxSyncRounds, and a second replacement happens only
\* for a colour text that holds "NaN".
SyncSettles ==
    /\ syncRounds <= 2
    /\ syncRounds = 2 => \E i \in 1..Len(bgColor) : bgColor[i] = "N"

====
